---- MODULE Spec2Model ----
(***************************************************************************)
(* A model of the eywa Go client: the line-oriented JSON-RPC transport     *)
(* (OpenPipe, sendJSON), the correlator (SendRequest, handleResponse,      *)
(* rpcCallbacks), the dispatcher (RegisterHandler, handleRequest) and the  *)
(* file transfer protocol (the Upload and Download families).             *)
(*                                                                         *)
(* Goroutines: one reader (OpenPipe), Tasks (application goroutines) and   *)
(* the host process, which writes lines to the client's stdin.             *)
(***************************************************************************)
EXTENDS Integers, Sequences, FiniteSets, TLC

\* ------------------------------------------------------------------ bounds
NumTasks == 2        \* application goroutines
NumIds == 2          \* distinct values rand.Int63() takes in the model
MaxQueue == 1        \* unread lines the stdin pipe holds
MaxSize == 1         \* longest file content, in bytes

Tasks == 1..NumTasks
NoTask == 0
Reader == NumTasks + 1          \* the goroutine running OpenPipe
Goroutines == Tasks \cup {Reader}

\* ------------------------------------------------------------- JSON values
\* A decoded JSON value (interface{}): nil, string, float64, bool or map.
JNull == [t |-> "null"]
JStr(s) == [t |-> "str", s |-> s]
JNum(n) == [t |-> "num", n |-> n]
JBool(b) == [t |-> "bool", b |-> b]
JObj(o) == [t |-> "obj", o |-> o]

\* m[k] of a Go map[string]interface{}: (value, ok); a missing key reads nil.
Has(m, k) == k \in DOMAIN m
Get(m, k) == IF k \in DOMAIN m THEN m[k] ELSE JNull

\* v.(string) succeeded
IsString(v) == v.t = "str"

\* fmt.Sprintf("%v", v) for the values an id takes on the wire
FormatV(v) ==
    CASE v.t = "str" -> v.s
      [] v.t = "num" -> ToString(v.n)
      [] v.t = "bool" -> IF v.b THEN "true" ELSE "false"
      [] OTHER -> "<nil>"

\* fmt.Sprintf("%d", rand.Int63()), rand.Int63() = n
generateID(n) == ToString(n)

VARIABLES
    rpcCallbacks,   \* map id -> response channel (index into chans)
    handlers,       \* map method -> handler
    mu,             \* holder of the one sync.Mutex, or NoTask
    chans,          \* every channel SendRequest made: [id, owner, buf, closed]
    inbound,        \* unread lines of stdin
    io,             \* per goroutine: what it wrote to stdout and the HTTP
                    \* requests it made, in its program order
    rpc,            \* reader: position in OpenPipe / handleData
    cur,            \* reader: the decoded line being handled
    rfound,         \* reader: result of the map lookup under the lock
    lastLog,        \* the message the reader is writing to the log, or ""
    crashed,        \* the process ended by a run-time panic
    exitCode,       \* the code os.Exit ended the process with, or NoExit
    pc,             \* goroutine: position in the client function it runs
                    \* (a task's own call, or a call a handler makes on
                    \* the reader)
    site,           \* task: the function it runs
    req,            \* task: the arguments of its call (the data map handed
                    \* to SendRequest, the method and handler registered)
    myChan,         \* task: channel returned by its SendRequest
    ret,            \* task: what its function returned, or NoRet
    xf,             \* task: locals of its upload or download
    progressFn      \* what the application puts under fileData["progressFn"]

vars == <<rpcCallbacks, handlers, mu, chans, inbound, io, rpc, cur,
          rfound, lastLog, crashed, exitCode, pc, site, req, myChan, ret,
          xf, progressFn>>

NoRet == [none |-> TRUE]
NoChan == 0
NotFound == [exists |-> FALSE]
\* the process is running
NoExit == -1
NoXfer == [phase |-> "none"]
NoLine == [kind |-> "none"]
EmptyMap == <<>>

\* ----------------------------------------------------------- map helpers
\* an entry that exists is kept: the first write wins
MapPut_KeepFirst(m, k, v) == [x \in DOMAIN m \cup {k} |-> IF x \in DOMAIN m THEN m[x] ELSE v]
\* rpcCallbacks[id] = responseChan            (SendRequest)
MapPut(m, k, v) == [x \in DOMAIN m \cup {k} |-> IF x = k THEN v ELSE m[x]]
\* deleting one entry empties the map
MapDelete_All(m, k) == EmptyMap
\* the entry is left in the map
MapDelete_Keep(m, k) == m
\* delete(rpcCallbacks, id)                    (handleResponse)
MapDelete(m, k) == [x \in DOMAIN m \ {k} |-> m[x]]

\* ------------------------------------------------------------------ wire
\* the Response is built without the ID field
\* Response{JsonRPC: "2.0", Result: data["result"], Error: data["error"], ID: id}
MakeResponse(data) ==
    [ID |-> FormatV(Get(data, "id")),
     Result |-> Get(data, "result"),
     Error |-> Get(data, "error")]

\* the id is looked at first: a unit with an id is taken for a reply
Classify_IdFirst(data) ==
    IF Has(data, "id") THEN "response"
    ELSE IF Has(data, "method") /\ IsString(data["method"]) THEN "request"
    ELSE "invalid"
\* handleData's three-way branch
Classify(data) ==
    IF Has(data, "method") /\ IsString(data["method"]) THEN "request"
    ELSE IF Has(data, "id") THEN "response"
    ELSE "invalid"

\* the Request is built without the id of the unit
MakeRequest_NoID(data) ==
    [Method |-> data["method"].s,
     Params |-> Get(data, "params"),
     ID |-> ""]
\* Request{Method, Params, ID} built by handleRequest
MakeRequest(data) ==
    [Method |-> data["method"].s,
     Params |-> Get(data, "params"),
     ID |-> IF Has(data, "id") THEN FormatV(data["id"]) ELSE ""]

\* lines the host may write
Malformed == [kind |-> "malformed"]
TooLong == [kind |-> "toolong"]
\* the host closes the stream: scanner.Scan() returns false, Err() is nil
Eof == [kind |-> "eof"]
Json(data) == [kind |-> "json", data |-> data]

Methods == {"m1", "m2"}
\* the functions the application registers
Handlers == {"h1", "h2"}
\* what a call of a handler does: it returns, or it never does (it blocks)
HandlerOutcomes == {"handler", "blocked"}
\* handler tables the application may have set up before it starts OpenPipe
InitHandlers == {EmptyMap, [m1 |-> "h1"]}

\* replies: a result for id "1", an error for id "2", and a result whose id
\* is the JSON number 1 and which carries a method that is not a string
ReplyLines ==
    {Json([id |-> JStr(generateID(1)), result |-> JStr("r1")]),
     Json([id |-> JStr(generateID(2)), error |-> JStr("e1")]),
     Json([id |-> JNum(1), result |-> JStr("r2"), method |-> JNum(7)])}
\* inbound units with a method: a Notification of m1 with params, and a
\* Request of m2 whose id is also an id SendRequest may generate
RequestLines ==
    {Json([method |-> JStr("m1"), params |-> JStr("p1")]),
     Json([method |-> JStr("m2"), id |-> JStr(generateID(1))])}
CorrLines ==
    ReplyLines \cup RequestLines \cup {Malformed, TooLong, Json(EmptyMap)}

\* what a caller may put under fileData["progressFn"]: nothing, a value of
\* the named type ProgressFn, or a func(current, total int64) literal (its
\* dynamic type is func(int64, int64))
NoProgressFn == "absent"
ProgressFns == {NoProgressFn, "ProgressFn", "func(int64, int64)"}

\* ------------------------------------------------------------------ init
\* the package-level state, and goroutines that have called nothing yet
InitState ==
    /\ rpcCallbacks = EmptyMap
    /\ handlers \in InitHandlers
    /\ mu = NoTask
    /\ chans = <<>>
    /\ inbound = <<>>
    /\ io = [g \in Tasks \cup {Reader} |-> <<>>]
    /\ rpc = "scan"
    /\ cur = NoLine
    /\ rfound = NotFound
    /\ lastLog = ""
    /\ crashed = FALSE
    /\ exitCode = NoExit
    /\ pc = [g \in Goroutines |-> "idle"]
    /\ site = [g \in Goroutines |-> "none"]
    /\ req = [g \in Goroutines |-> EmptyMap]
    /\ myChan = [g \in Goroutines |-> NoChan]
    /\ ret = [g \in Goroutines |-> NoRet]
    /\ xf = [g \in Goroutines |-> NoXfer]

\* an application that passes no progress callback
Init == InitState /\ progressFn = NoProgressFn

readerVars == <<rpc, cur, rfound, lastLog>>
taskVars == <<pc, site, req, myChan, ret, xf>>

\* ------------------------------------------------------------------ host
\* The host process writes one more line to the client's stdin.
HostWrite(lines) ==
    /\ Len(inbound) < MaxQueue
    /\ \E l \in lines : inbound' = Append(inbound, l)
    /\ UNCHANGED <<rpcCallbacks, handlers, mu, chans, io, crashed, exitCode, progressFn>>
    /\ UNCHANGED readerVars
    /\ UNCHANGED taskVars

\* ------------------------------------------------------------- transport
\* sendJSON by goroutine g: json.Marshal, then fmt.Println of the encoded line
sendJSON(out, g, data) ==
    [out EXCEPT ![g] = Append(@, [ch |-> "stdout", msg |-> data])]

\* make(chan Response, 1)
NewChan(id, t) == [id |-> id, owner |-> t, buf |-> <<>>, closed |-> FALSE, sent |-> <<>>]

\* the request goes to the transport with no entry registered for it
SendRequest_NoEntry(t, data, fn) ==
    /\ mu = NoTask
    /\ \E n \in 1..NumIds :
         LET id == generateID(n) IN
         /\ req' = [req EXCEPT ![t] =
                      [x \in DOMAIN data \cup {"jsonrpc", "id"} |->
                         IF x = "jsonrpc" THEN JStr("2.0")
                         ELSE IF x = "id" THEN JStr(id) ELSE data[x]]]
         /\ chans' = Append(chans, NewChan(id, t))
         /\ myChan' = [myChan EXCEPT ![t] = Len(chans) + 1]
    /\ mu' = t
    /\ pc' = [pc EXCEPT ![t] = "sr_unlock"]
    /\ site' = [site EXCEPT ![t] = fn]
    /\ UNCHANGED <<rpcCallbacks, handlers, inbound, io, crashed, exitCode, progressFn, ret, xf>>
    /\ UNCHANGED readerVars

\* SendRequest up to and including rpcCallbacks[id] = responseChan
\* (the lock is taken; SendRequestUnlock releases it)
SendRequest(t, data, fn) ==
    /\ mu = NoTask
    /\ \E n \in 1..NumIds :
         LET id == generateID(n) IN
         /\ req' = [req EXCEPT ![t] =
                      [x \in DOMAIN data \cup {"jsonrpc", "id"} |->
                         IF x = "jsonrpc" THEN JStr("2.0")
                         ELSE IF x = "id" THEN JStr(id) ELSE data[x]]]
         /\ chans' = Append(chans, NewChan(id, t))
         /\ rpcCallbacks' = MapPut(rpcCallbacks, id, Len(chans) + 1)
         /\ myChan' = [myChan EXCEPT ![t] = Len(chans) + 1]
    /\ mu' = t
    /\ pc' = [pc EXCEPT ![t] = "sr_unlock"]
    /\ site' = [site EXCEPT ![t] = fn]
    /\ UNCHANGED <<handlers, inbound, io, crashed, exitCode, progressFn, ret, xf>>
    /\ UNCHANGED readerVars

\* sendJSON is called with the lock still held
SendRequestUnlock_Hold(t) ==
    /\ pc[t] = "sr_unlock"
    /\ mu = t
    /\ pc' = [pc EXCEPT ![t] = "sr_write"]
    /\ UNCHANGED <<rpcCallbacks, handlers, mu, chans, inbound, io, crashed, exitCode, progressFn,
                   site, req, myChan, ret, xf>>
    /\ UNCHANGED readerVars

\* SendRequest: mu.Unlock()
SendRequestUnlock(t) ==
    /\ pc[t] = "sr_unlock"
    /\ mu = t
    /\ mu' = NoTask
    /\ pc' = [pc EXCEPT ![t] = "sr_write"]
    /\ UNCHANGED <<rpcCallbacks, handlers, chans, inbound, io, crashed, exitCode, progressFn,
                   site, req, myChan, ret, xf>>
    /\ UNCHANGED readerVars

\* sendJSON(data); return responseChan
SendRequestWrite(t) ==
    /\ pc[t] = "sr_write"
    /\ io' = sendJSON(io, t, req[t])
    /\ pc' = [pc EXCEPT ![t] = "await"]
    /\ UNCHANGED <<rpcCallbacks, handlers, mu, chans, inbound, crashed, exitCode, progressFn,
                   site, req, myChan, ret, xf>>
    /\ UNCHANGED readerVars

\* <-ch: the value at the head of the buffer (a receive on an empty open
\* channel blocks)
ChanCanRecv(c) == c.buf # <<>>
ChanRecv(c) == [c EXCEPT !.buf = Tail(@)]

\* the notification is stamped with an id as well
SendNotification_WithId(out, g, data) ==
    sendJSON(out, g, [x \in DOMAIN data \cup {"jsonrpc", "id"} |->
                        IF x = "jsonrpc" THEN JStr("2.0")
                        ELSE IF x = "id" THEN JStr(generateID(1)) ELSE data[x]])
\* SendNotification: data["jsonrpc"] = "2.0"; sendJSON(data)
SendNotification(out, g, data) ==
    sendJSON(out, g, [x \in DOMAIN data \cup {"jsonrpc"} |->
                        IF x = "jsonrpc" THEN JStr("2.0") ELSE data[x]])

\* ------------------------------------------------------- control client
\* GetTask: SendRequest({"method": "task.get"}), then wait
GetTask(t) ==
    /\ pc[t] = "idle"
    /\ SendRequest(t, [method |-> JStr("task.get")], "GetTask")

\* the wait gives up when no Response has come: a timeout error is returned
GetTaskReturn_Timeout(t) ==
    /\ pc[t] = "await"
    /\ site[t] = "GetTask"
    /\ IF ChanCanRecv(chans[myChan[t]])
       THEN LET response == Head(chans[myChan[t]].buf) IN
            /\ ret' = [ret EXCEPT ![t] =
                         IF response.Error # JNull
                         THEN [result |-> JNull, err |-> response.Error]
                         ELSE [result |-> response.Result, err |-> JNull]]
            /\ chans' = [chans EXCEPT ![myChan[t]] = ChanRecv(@)]
       ELSE /\ ret' = [ret EXCEPT ![t] = [result |-> JNull, err |-> JStr("timeout")]]
            /\ UNCHANGED chans
    /\ pc' = [pc EXCEPT ![t] = "done"]
    /\ UNCHANGED <<rpcCallbacks, handlers, mu, inbound, io, crashed, exitCode, progressFn,
                   site, req, myChan, xf>>
    /\ UNCHANGED readerVars

\* response := <-responseChan; the error or the result is returned
GetTaskReturn(t) ==
    /\ pc[t] = "await"
    /\ site[t] = "GetTask"
    /\ ChanCanRecv(chans[myChan[t]])
    /\ LET response == Head(chans[myChan[t]].buf) IN
       ret' = [ret EXCEPT ![t] =
                 IF response.Error # JNull
                 THEN [result |-> JNull, err |-> response.Error]
                 ELSE [result |-> response.Result, err |-> JNull]]
    /\ chans' = [chans EXCEPT ![myChan[t]] = ChanRecv(@)]
    /\ pc' = [pc EXCEPT ![t] = "done"]
    /\ UNCHANGED <<rpcCallbacks, handlers, mu, inbound, io, crashed, exitCode, progressFn,
                   site, req, myChan, xf>>
    /\ UNCHANGED readerVars

\* UpdateTask(status): one task.update notification
UpdateTask(t) ==
    /\ pc[t] = "idle"
    /\ io' = SendNotification(io, t,
                [method |-> JStr("task.update"), params |-> JStr("PROCESSING")])
    /\ pc' = [pc EXCEPT ![t] = "done"]
    /\ site' = [site EXCEPT ![t] = "UpdateTask"]
    /\ UNCHANGED <<rpcCallbacks, handlers, mu, chans, inbound, crashed, exitCode, progressFn,
                   req, myChan, ret, xf>>
    /\ UNCHANGED readerVars

\* the task statuses the package names, and one it does not
Statuses == {"SUCCESS", "ERROR", "PROCESSING", "success"}

\* CloseTask(status): the task.close notification is written first
CloseTask(t) ==
    /\ pc[t] = "idle"
    /\ \E status \in Statuses :
         LET data == [method |-> JStr("task.close"),
                      params |-> JObj([status |-> JStr(status)])] IN
         /\ io' = SendNotification(io, t, data)
         /\ req' = [req EXCEPT ![t] = data]
    /\ pc' = [pc EXCEPT ![t] = "ct_exit"]
    /\ site' = [site EXCEPT ![t] = "CloseTask"]
    /\ UNCHANGED <<rpcCallbacks, handlers, mu, chans, inbound, crashed, exitCode, progressFn,
                   myChan, ret, xf>>
    /\ UNCHANGED readerVars

\* if status == SUCCESS { os.Exit(0) } else { os.Exit(1) }
ExitCodeOf_Zero(status) == 0
ExitCodeOf(status) == IF status = "SUCCESS" THEN 0 ELSE 1

\* CloseTask: os.Exit ends the process, every goroutine with it
CloseTaskExit(t) ==
    /\ pc[t] = "ct_exit"
    /\ exitCode' = ExitCodeOf(req[t].params.o.status.s)
    /\ pc' = [pc EXCEPT ![t] = "done"]
    /\ UNCHANGED <<rpcCallbacks, handlers, mu, chans, inbound, io, crashed,
                   progressFn, site, req, myChan, ret, xf>>
    /\ UNCHANGED readerVars

\* the handler table is written under a lock of its own: mu is not taken
RegisterHandler_OwnLock(t) ==
    /\ pc[t] = "idle"
    /\ \E m \in Methods, h \in Handlers :
         /\ handlers' = MapPut(handlers, m, h)
         /\ req' = [req EXCEPT ![t] = [method |-> m, handler |-> h]]
    /\ pc' = [pc EXCEPT ![t] = "done"]
    /\ site' = [site EXCEPT ![t] = "RegisterHandler"]
    /\ UNCHANGED <<rpcCallbacks, mu, chans, inbound, io, crashed, exitCode, progressFn,
                   myChan, ret, xf>>
    /\ UNCHANGED readerVars

\* RegisterHandler: mu.Lock(); defer mu.Unlock(); handlers[method] = handler
RegisterHandler(t) ==
    /\ pc[t] = "idle"
    /\ mu = NoTask
    /\ mu' = t
    /\ \E m \in Methods, h \in Handlers :
         /\ handlers' = MapPut(handlers, m, h)
         /\ req' = [req EXCEPT ![t] = [method |-> m, handler |-> h]]
    /\ pc' = [pc EXCEPT ![t] = "rh_unlock"]
    /\ site' = [site EXCEPT ![t] = "RegisterHandler"]
    /\ UNCHANGED <<rpcCallbacks, chans, inbound, io, crashed, exitCode, progressFn,
                   myChan, ret, xf>>
    /\ UNCHANGED readerVars

RegisterHandlerUnlock(t) ==
    /\ pc[t] = "rh_unlock"
    /\ mu = t
    /\ mu' = NoTask
    /\ pc' = [pc EXCEPT ![t] = "done"]
    /\ UNCHANGED <<rpcCallbacks, handlers, chans, inbound, io, crashed, exitCode, progressFn,
                   site, req, myChan, ret, xf>>
    /\ UNCHANGED readerVars

\* ----------------------------------------------------------------- reader
\* a decode failure ends the loop (return in place of continue)
ScanOutcome_Return(l) ==
    CASE l.kind \in {"toolong", "malformed"} ->
           [rpc |-> "logdone", log |-> "Received invalid JSON", cur |-> NoLine]
      [] l.kind = "eof" ->
           [rpc |-> "done", log |-> "", cur |-> NoLine]
      [] OTHER ->
           CASE Classify(l.data) = "request" ->
                  [rpc |-> "hreq", log |-> "", cur |-> l]
             [] Classify(l.data) = "response" ->
                  [rpc |-> "hresp", log |-> "", cur |-> l]
             [] OTHER ->
                  [rpc |-> "log", log |-> "Received invalid JSON-RPC", cur |-> NoLine]

\* a line over the buffer limit is logged and skipped like a malformed one
ScanOutcome_SkipTooLong(l) ==
    CASE l.kind \in {"toolong", "malformed"} ->
           [rpc |-> "log", log |-> "Received invalid JSON", cur |-> NoLine]
      [] l.kind = "eof" ->
           [rpc |-> "done", log |-> "", cur |-> NoLine]
      [] OTHER ->
           CASE Classify(l.data) = "request" ->
                  [rpc |-> "hreq", log |-> "", cur |-> l]
             [] Classify(l.data) = "response" ->
                  [rpc |-> "hresp", log |-> "", cur |-> l]
             [] OTHER ->
                  [rpc |-> "log", log |-> "Received invalid JSON-RPC", cur |-> NoLine]

\* What one turn of OpenPipe's loop does with the line l: scanner.Scan()
\* fails on a line over the buffer limit and the loop ends; a line that
\* json.Unmarshal rejects is logged and skipped; a decoded map goes to
\* handleData; at the end of the stream Scan fails with no error and
\* OpenPipe returns.
ScanOutcome(l) ==
    CASE l.kind = "toolong" ->
           [rpc |-> "logdone", log |-> "Error reading stdin", cur |-> NoLine]
      [] l.kind = "eof" ->
           [rpc |-> "done", log |-> "", cur |-> NoLine]
      [] l.kind = "malformed" ->
           [rpc |-> "log", log |-> "Received invalid JSON", cur |-> NoLine]
      [] OTHER ->
           CASE Classify(l.data) = "request" ->
                  [rpc |-> "hreq", log |-> "", cur |-> l]
             [] Classify(l.data) = "response" ->
                  [rpc |-> "hresp", log |-> "", cur |-> l]
             [] OTHER ->
                  [rpc |-> "log", log |-> "Received invalid JSON-RPC", cur |-> NoLine]

\* the next line is read while a handler is still running
OpenPipe_WhileHandling ==
    /\ rpc \in {"scan", "handler"}
    /\ inbound # <<>>
    /\ inbound' = Tail(inbound)
    /\ LET o == ScanOutcome(Head(inbound)) IN
       /\ rpc' = o.rpc
       /\ cur' = o.cur
       /\ lastLog' = o.log
    /\ UNCHANGED <<rpcCallbacks, handlers, mu, chans, io, crashed, exitCode, progressFn, rfound>>
    /\ UNCHANGED taskVars
\* OpenPipe: for scanner.Scan() { json.Unmarshal; handleData }
OpenPipe ==
    /\ rpc = "scan"
    /\ inbound # <<>>
    /\ inbound' = Tail(inbound)
    /\ LET o == ScanOutcome(Head(inbound)) IN
       /\ rpc' = o.rpc
       /\ cur' = o.cur
       /\ lastLog' = o.log
    /\ UNCHANGED <<rpcCallbacks, handlers, mu, chans, io, crashed, exitCode, progressFn, rfound>>
    /\ UNCHANGED taskVars

\* on its way out after the read error OpenPipe empties the registry and
\* closes the channels of the calls in it
LogPrintf_ReleasePending ==
    /\ rpc \in {"log", "logdone"}
    /\ rpc' = IF rpc = "log" THEN "scan" ELSE "done"
    /\ lastLog' = ""
    /\ IF rpc = "logdone"
       THEN /\ rpcCallbacks' = EmptyMap
            /\ chans' = [c \in DOMAIN chans |->
                           IF \E id \in DOMAIN rpcCallbacks : rpcCallbacks[id] = c
                           THEN [chans[c] EXCEPT !.closed = TRUE] ELSE chans[c]]
       ELSE UNCHANGED <<rpcCallbacks, chans>>
    /\ UNCHANGED <<handlers, mu, inbound, io, crashed, exitCode, progressFn, cur, rfound>>
    /\ UNCHANGED taskVars

\* log.Printf returns: to the loop, or out of OpenPipe after the read error
LogPrintf ==
    /\ rpc \in {"log", "logdone"}
    /\ rpc' = IF rpc = "log" THEN "scan" ELSE "done"
    /\ lastLog' = ""
    /\ UNCHANGED <<rpcCallbacks, handlers, mu, chans, inbound, io, crashed, exitCode, progressFn,
                   cur, rfound>>
    /\ UNCHANGED taskVars

\* handleRequest: mu.Lock(); handler, exists := handlers[method]
handleRequestLookup ==
    /\ rpc = "hreq"
    /\ mu = NoTask
    /\ mu' = Reader
    /\ LET m == MakeRequest(cur.data).Method IN
       rfound' = IF Has(handlers, m)
                 THEN [exists |-> TRUE, h |-> handlers[m]]
                 ELSE NotFound
    /\ rpc' = "hreq_unlock"
    /\ UNCHANGED <<rpcCallbacks, handlers, chans, inbound, io, crashed, exitCode, progressFn,
                   cur, lastLog>>
    /\ UNCHANGED taskVars

\* a unit without a handler is answered with an error reply
handleRequestUnlock_ErrorReply ==
    /\ rpc = "hreq_unlock"
    /\ mu = Reader
    /\ mu' = NoTask
    /\ IF rfound.exists
       THEN /\ rpc' \in HandlerOutcomes
            /\ UNCHANGED <<cur, rfound, lastLog, io>>
       ELSE /\ rpc' = "log"
            /\ lastLog' = "no registered handler"
            /\ io' = sendJSON(io, Reader,
                              [id |-> Get(cur.data, "id"), error |-> JStr("no handler")])
            /\ cur' = NoLine
            /\ rfound' = NotFound
    /\ UNCHANGED <<rpcCallbacks, handlers, chans, inbound, crashed, exitCode, progressFn>>
    /\ UNCHANGED taskVars

\* the handler is started in a goroutine of its own and the loop goes on
handleRequestUnlock_Async ==
    /\ rpc = "hreq_unlock"
    /\ mu = Reader
    /\ mu' = NoTask
    /\ rpc' = IF rfound.exists THEN "scan" ELSE "log"
    /\ lastLog' = IF rfound.exists THEN lastLog ELSE "no registered handler"
    /\ cur' = NoLine
    /\ rfound' = NotFound
    /\ UNCHANGED <<rpcCallbacks, handlers, chans, inbound, io, crashed, exitCode, progressFn>>
    /\ UNCHANGED taskVars

\* handleRequest: mu.Unlock(); then handler(request) or the log line
handleRequestUnlock ==
    /\ rpc = "hreq_unlock"
    /\ mu = Reader
    /\ mu' = NoTask
    /\ IF rfound.exists
       THEN /\ rpc' \in HandlerOutcomes
            /\ UNCHANGED <<cur, rfound, lastLog>>
       ELSE /\ rpc' = "log"
            /\ lastLog' = "no registered handler"
            /\ cur' = NoLine
            /\ rfound' = NotFound
    /\ UNCHANGED <<rpcCallbacks, handlers, chans, inbound, io, crashed, exitCode, progressFn>>
    /\ UNCHANGED taskVars

\* handler(request) returns to handleRequest, and that to the loop; a call
\* that blocks (rpc = "blocked") never does.
HandlerReturn ==
    /\ rpc = "handler"
    /\ pc[Reader] \in {"idle", "done"}
    /\ rpc' = "scan"
    /\ cur' = NoLine
    /\ rfound' = NotFound
    /\ pc' = [pc EXCEPT ![Reader] = "idle"]
    /\ UNCHANGED <<rpcCallbacks, handlers, mu, chans, inbound, io, crashed, exitCode, progressFn,
                   lastLog, site, req, myChan, ret, xf>>

\* a handler that calls GetTask: the call is made by the goroutine running
\* OpenPipe, inside handler(request)
HandlerGetTask ==
    /\ rpc = "handler"
    /\ GetTask(Reader)

\* a reply with an unknown id empties the registry
handleResponseLookup_Purge ==
    /\ rpc = "hresp"
    /\ mu = NoTask
    /\ mu' = Reader
    /\ LET id == MakeResponse(cur.data).ID IN
       IF Has(rpcCallbacks, id)
       THEN /\ rfound' = [exists |-> TRUE, ch |-> rpcCallbacks[id]]
            /\ rpcCallbacks' = MapDelete(rpcCallbacks, id)
       ELSE /\ rfound' = NotFound
            /\ rpcCallbacks' = EmptyMap
    /\ rpc' = "hresp_unlock"
    /\ UNCHANGED <<handlers, chans, inbound, io, crashed, exitCode, progressFn, cur, lastLog>>
    /\ UNCHANGED taskVars

\* handleResponse: mu.Lock(); callback, exists := rpcCallbacks[id];
\* if exists, delete(rpcCallbacks, id)
handleResponseLookup ==
    /\ rpc = "hresp"
    /\ mu = NoTask
    /\ mu' = Reader
    /\ LET id == MakeResponse(cur.data).ID IN
       IF Has(rpcCallbacks, id)
       THEN /\ rfound' = [exists |-> TRUE, ch |-> rpcCallbacks[id]]
            /\ rpcCallbacks' = MapDelete(rpcCallbacks, id)
       ELSE /\ rfound' = NotFound
            /\ UNCHANGED rpcCallbacks
    /\ rpc' = "hresp_unlock"
    /\ UNCHANGED <<handlers, chans, inbound, io, crashed, exitCode, progressFn, cur, lastLog>>
    /\ UNCHANGED taskVars

\* handleResponse: mu.Unlock() on either branch; the else branch logs
handleResponseUnlock ==
    /\ rpc = "hresp_unlock"
    /\ mu = Reader
    /\ mu' = NoTask
    /\ IF rfound.exists
       THEN /\ rpc' = "hresp_send"
            /\ UNCHANGED <<cur, rfound, lastLog>>
       ELSE /\ rpc' = "log"
            /\ lastLog' = "RPC callback not registered"
            /\ cur' = NoLine
            /\ rfound' = NotFound
    /\ UNCHANGED <<rpcCallbacks, handlers, chans, inbound, io, crashed, exitCode, progressFn>>
    /\ UNCHANGED taskVars

\* the channel has no buffer: a send waits until its receiver is at the receive
ChanCanSend_Unbuffered(c) == c.closed \/ pc[c.owner] = "await"
\* ch <- v on a channel of capacity 1: a send on a closed channel panics,
\* a send on a full one blocks.
ChanCanSend(c) == c.closed \/ Len(c.buf) < 1
ChanSend_Drop(c, v) == c
ChanSend(c, v) == [c EXCEPT !.buf = Append(@, v), !.sent = Append(@, v)]
\* close(ch): closing a closed channel panics
ChanClose_Skip(c) == c
ChanClose(c) == [c EXCEPT !.closed = TRUE]

\* handleResponse: callback <- response; close(callback)
handleResponseDeliver ==
    /\ rpc = "hresp_send"
    /\ LET c == chans[rfound.ch] IN
       /\ ChanCanSend(c)
       /\ IF c.closed
          THEN /\ crashed' = TRUE
               /\ UNCHANGED <<chans, exitCode, progressFn>>
          ELSE /\ chans' = [chans EXCEPT ![rfound.ch] =
                              ChanClose(ChanSend(c, MakeResponse(cur.data)))]
               /\ UNCHANGED <<crashed, exitCode, progressFn>>
    /\ rpc' = "scan"
    /\ cur' = NoLine
    /\ rfound' = NotFound
    /\ UNCHANGED <<rpcCallbacks, handlers, mu, inbound, io, lastLog>>
    /\ UNCHANGED taskVars

\* ---------------------------------------------------------- file transfer
Bytes == {"a", "b"}
\* file contents: byte strings of up to MaxSize bytes
Bodies == UNION {[1..n -> Bytes] : n \in 0..MaxSize}
\* pre-signed URLs the host hands out
URLs == {"u1", "u2"}
\* fileData["name"]: absent or empty, or a name (fileData itself may be nil:
\* "given" in the stream and content uploads)
Names == {"", "f"}
\* fileData["size"]: absent (or not an int), or a declared size
DeclaredSizes == {[has |-> FALSE, n |-> 0]} \cup {[has |-> TRUE, n |-> k] : k \in 0..MaxSize}
\* os.Stat(filePath): error, a directory, or a file of some size
FileStats == {[kind |-> "missing", size |-> 0], [kind |-> "dir", size |-> 0]}
             \cup {[kind |-> "file", size |-> k] : k \in 0..MaxSize}
\* what reading a byte source gives: its bytes, or an error
Reads == {[ok |-> TRUE, bytes |-> b] : b \in Bodies} \cup {[ok |-> FALSE, bytes |-> <<>>]}
\* the bulk channel's answer to a PUT: a transport error or a status
PutResponses == {[net |-> "error", status |-> 0]}
                \cup {[net |-> "ok", status |-> st] : st \in {200, 204, 403}}
\* the bulk channel's answer to a GET: a transport error, or a status with a
\* body, the advertised Content-Length (-1 when not advertised) and whether
\* reading the body to its end fails
GetResponses ==
    {[net |-> "error", status |-> 0, body |-> <<>>, clen |-> 0, readErr |-> FALSE]}
    \cup {[net |-> "ok", status |-> 404, body |-> <<>>, clen |-> 0, readErr |-> FALSE]}
    \cup {[net |-> "ok", status |-> 200, body |-> b, clen |-> l, readErr |-> e] :
            b \in Bodies, l \in {-1, 0, MaxSize}, e \in BOOLEAN}

UploadSites == {"Upload", "UploadStream", "UploadContent"}
DownloadSites == {"DownloadStream", "Download"}

\* error messages: a fixed text, or fmt.Sprintf of a text and the HTTP status
\* it names (code 0: the message names no status)
Message(text) == [text |-> text, code |-> 0]
StatusMessage_NoCode(text, status) == [text |-> text, code |-> 0]
StatusMessage(text, status) == [text |-> text, code |-> status]

\* error values
NilError == [type |-> "nil", Message |-> Message("")]
NewFileUploadError(message) == [type |-> "FileUploadError", Message |-> message]
NewFileDownloadError_Untyped(message) == [type |-> "error", Message |-> message]
NewFileDownloadError(message) == [type |-> "FileDownloadError", Message |-> message]
NoStream == [nil |-> TRUE]
NoContent == [nil |-> TRUE, bytes |-> <<>>]

\* Log(event, message, ...): the task.log notification
LogNote(event, message) ==
    [method |-> JStr("task.log"),
     params |-> JObj([event |-> JStr(event), message |-> JStr(message)])]

\* the data map GraphQL hands to SendRequest
GraphQLRequest(query, variables) ==
    [method |-> JStr("eywa.datasets.graphql"),
     params |-> JObj([query |-> JStr(query), variables |-> JObj(variables)])]

\* the error GraphQL returns: fmt.Errorf of a text and, for a remote error,
\* the error value of the reply
NoGraphQLError == [text |-> "", value |-> JNull]
\* GraphQL after the reply: the remote error, the result map, or the format
\* error; no result map is returned (ok is FALSE) next to an error
GraphQLResult_ResultFirst(response) ==
    IF response.Result.t = "obj"
    THEN [ok |-> TRUE, err |-> NoGraphQLError, result |-> response.Result.o]
    ELSE IF response.Error # JNull
    THEN [ok |-> FALSE, err |-> [text |-> "GraphQL error", value |-> response.Error],
          result |-> EmptyMap]
    ELSE [ok |-> FALSE, result |-> EmptyMap,
          err |-> [text |-> "unexpected GraphQL response format", value |-> JNull]]
GraphQLResult(response) ==
    IF response.Error # JNull
    THEN [ok |-> FALSE, err |-> [text |-> "GraphQL error", value |-> response.Error],
          result |-> EmptyMap]
    ELSE IF response.Result.t = "obj"
    THEN [ok |-> TRUE, err |-> NoGraphQLError, result |-> response.Result.o]
    ELSE [ok |-> FALSE, result |-> EmptyMap,
          err |-> [text |-> "unexpected GraphQL response format", value |-> JNull]]

\* result["data"].(map[string]interface{})[field]: the unchecked assertion
\* panics when data is not a map
DataField(result, field) ==
    LET d == Get(result, "data") IN
    IF d.t = "obj" THEN [panic |-> FALSE, v |-> Get(d.o, field)]
    ELSE [panic |-> TRUE, v |-> JNull]

\* httpPutRequest: nil only for status 200
httpPutRequest_Any2xx(resp) ==
    IF resp.net = "error" THEN [ok |-> FALSE, status |-> 0]
    ELSE IF resp.status >= 300 THEN [ok |-> FALSE, status |-> resp.status]
    ELSE [ok |-> TRUE, status |-> resp.status]
httpPutRequest(resp) ==
    IF resp.net = "error" THEN [ok |-> FALSE, status |-> 0]
    ELSE IF resp.status # 200 THEN [ok |-> FALSE, status |-> resp.status]
    ELSE [ok |-> TRUE, status |-> 200]

\* replies of the host to GraphQL calls
UploadURLResult(u) == JObj([data |-> JObj([requestUploadURL |-> JStr(u)])])
DownloadURLResult(u) == JObj([data |-> JObj([requestDownloadURL |-> JStr(u)])])
ConfirmResult(v) == JObj([data |-> JObj([confirmFileUpload |-> v])])
XferResults ==
    {UploadURLResult(u) : u \in URLs} \cup {DownloadURLResult("u1")}
    \cup {ConfirmResult(JBool(b)) : b \in BOOLEAN} \cup {ConfirmResult(JStr("true"))}
    \cup {JObj(EmptyMap), JStr("r1")}
\* the ids of the Requests the host has been sent
Requested ==
    UNION {{io[g][i].msg.id : i \in {j \in 1..Len(io[g]) :
                io[g][j].ch = "stdout" /\ Has(io[g][j].msg, "id")}} : g \in Tasks}
XferLines ==
    {Json([id |-> JStr(generateID(n)), result |-> r]) : n \in 1..NumIds, r \in XferResults}
    \cup {Json([id |-> JStr(generateID(n)), error |-> JStr("e1")]) : n \in 1..NumIds}
    \cup {Json([id |-> JStr(generateID(n)), error |-> JStr("e1"),
                 result |-> ConfirmResult(JBool(TRUE))]) : n \in 1..NumIds}
\* the host answers Requests it was sent
XferAnswers == {l \in XferLines : l.data.id \in Requested}

\* one request on the bulk channel and its answer, as goroutine g saw it
IoHttp(out, g, verb, url, len, resp) ==
    [out EXCEPT ![g] = Append(@, [ch |-> "http", verb |-> verb, url |-> url,
                                  len |-> len, resp |-> resp])]

\* the stack frame of a transfer
XferStep(t, npc, nret, nxf, nio) ==
    /\ pc' = [pc EXCEPT ![t] = npc]
    /\ ret' = [ret EXCEPT ![t] = nret]
    /\ xf' = [xf EXCEPT ![t] = nxf]
    /\ io' = nio
XferFrame == UNCHANGED <<rpcCallbacks, handlers, mu, inbound, req, myChan>>
             /\ UNCHANGED readerVars

NewXfer(name, size, content) ==
    [phase |-> "url", name |-> name, size |-> size, content |-> content, url |-> "",
     progress |-> <<>>]

\* fn, ok := fileData["progressFn"].(ProgressFn): ok when the dynamic type of
\* the value is ProgressFn itself; a missing key and a func literal give !ok
AsProgressFn(v) == [ok |-> v = "ProgressFn"]

\* if progressFn != nil { progressFn(current, total) }: the calls made so far
ReportProgress(calls, v, current, total) ==
    IF AsProgressFn(v).ok
    THEN Append(calls, [current |-> current, total |-> total])
    ELSE calls

\* Info, Debug, Error: a task.log notification written by goroutine g
Log(out, g, event, message) == SendNotification(out, g, LogNote(event, message))

\* UploadContent up to its first GraphQL call
UploadContent(t) ==
    /\ pc[t] = "idle"
    /\ site' = [site EXCEPT ![t] = "UploadContent"]
    /\ \E given \in BOOLEAN, name \in Names, content \in Bodies :
         IF ~given
         THEN XferStep(t, "done",
                       [err |-> NewFileUploadError(Message("fileData is required"))],
                       xf[t], io)
         ELSE IF name = ""
         THEN XferStep(t, "done",
                       [err |-> NewFileUploadError(Message("name is required for content upload"))],
                       xf[t], io)
         ELSE XferStep(t, "gql", ret[t], NewXfer(name, Len(content), content),
                       Log(io, t, "INFO", "Starting content upload"))
    /\ UNCHANGED <<chans, crashed, exitCode, progressFn>>
    /\ XferFrame

\* len(content) != size
SizeMismatch_Never(content, size) == FALSE
SizeMismatch(content, size) == Len(content) # size

\* UploadStream up to its first GraphQL call
UploadStream(t) ==
    /\ pc[t] = "idle"
    /\ site' = [site EXCEPT ![t] = "UploadStream"]
    /\ \E given \in BOOLEAN, name \in Names, declared \in DeclaredSizes, rd \in Reads :
         IF ~given
         THEN XferStep(t, "done",
                       [err |-> NewFileUploadError(Message("fileData is required"))],
                       xf[t], io)
         ELSE IF name = ""
         THEN XferStep(t, "done",
                       [err |-> NewFileUploadError(Message("name is required for stream upload"))],
                       xf[t], io)
         ELSE IF ~declared.has
         THEN XferStep(t, "done",
                       [err |-> NewFileUploadError(Message("size is required for stream upload"))],
                       xf[t], io)
         ELSE LET started == Log(io, t, "INFO", "Starting stream upload") IN
              IF ~rd.ok
              THEN XferStep(t, "done",
                            [err |-> NewFileUploadError(Message("Failed to read from stream"))],
                            xf[t], started)
              ELSE IF SizeMismatch(rd.bytes, declared.n)
              THEN XferStep(t, "done",
                            [err |-> NewFileUploadError(Message("Content size mismatch"))],
                            [NewXfer(name, declared.n, rd.bytes) EXCEPT !.phase = "failed"],
                            started)
              ELSE XferStep(t, "gql", ret[t], NewXfer(name, declared.n, rd.bytes), started)
    /\ UNCHANGED <<chans, crashed, exitCode, progressFn>>
    /\ XferFrame

\* the start notification is written before the path is looked at
Upload_InfoFirst(t) ==
    /\ pc[t] = "idle"
    /\ site' = [site EXCEPT ![t] = "Upload"]
    /\ \E st \in FileStats :
         LET started == Log(io, t, "INFO", "Starting upload") IN
         IF st.kind = "missing"
         THEN XferStep(t, "done", [err |-> NewFileUploadError(Message("File not found"))],
                       xf[t], started)
         ELSE IF st.kind = "dir"
         THEN XferStep(t, "done",
                       [err |-> NewFileUploadError(Message("Path is a directory, not a file"))],
                       xf[t], started)
         ELSE XferStep(t, "gql", ret[t], NewXfer("f", st.size, <<>>), started)
    /\ UNCHANGED <<chans, crashed, exitCode, progressFn>>
    /\ XferFrame

\* Upload up to its first GraphQL call; the file is read after the URL came
Upload(t) ==
    /\ pc[t] = "idle"
    /\ site' = [site EXCEPT ![t] = "Upload"]
    /\ \E st \in FileStats :
         IF st.kind = "missing"
         THEN XferStep(t, "done", [err |-> NewFileUploadError(Message("File not found"))],
                       xf[t], io)
         ELSE IF st.kind = "dir"
         THEN XferStep(t, "done",
                       [err |-> NewFileUploadError(Message("Path is a directory, not a file"))],
                       xf[t], io)
         ELSE XferStep(t, "gql", ret[t], NewXfer("f", st.size, <<>>),
                       Log(io, t, "INFO", "Starting upload"))
    /\ UNCHANGED <<chans, crashed, exitCode, progressFn>>
    /\ XferFrame

\* DownloadStream, called directly or by Download, up to its GraphQL call
DownloadStream(t) ==
    /\ pc[t] = "idle"
    /\ \E fn \in DownloadSites : site' = [site EXCEPT ![t] = fn]
    /\ XferStep(t, "gql", ret[t], NewXfer("f", 0, <<>>),
                Log(io, t, "INFO", "Starting stream download"))
    /\ UNCHANGED <<chans, crashed, exitCode, progressFn>>
    /\ XferFrame

\* the variables of the GraphQL call the transfer makes next
XferCall_Retry(t) ==
    IF site[t] \in DownloadSites
    THEN GraphQLRequest("requestDownloadURL", [file |-> JStr(xf[t].name)])
    ELSE GraphQLRequest("requestUploadURL",
                        [name |-> JStr(xf[t].name), size |-> JNum(xf[t].size)])
XferCall_ConfirmByName(t) ==
    IF site[t] \in DownloadSites
    THEN GraphQLRequest("requestDownloadURL", [file |-> JStr(xf[t].name)])
    ELSE IF xf[t].phase = "url"
    THEN GraphQLRequest("requestUploadURL",
                        [name |-> JStr(xf[t].name), size |-> JNum(xf[t].size)])
    ELSE GraphQLRequest("confirmFileUpload", [url |-> JStr(xf[t].name)])
\* the content upload declares no size in its URL request
XferCall_ContentNoSize(t) ==
    IF site[t] \in DownloadSites
    THEN GraphQLRequest("requestDownloadURL", [file |-> JStr(xf[t].name)])
    ELSE IF xf[t].phase = "url"
    THEN GraphQLRequest("requestUploadURL",
                        [name |-> JStr(xf[t].name),
                         size |-> JNum(IF site[t] = "UploadContent" THEN 0 ELSE xf[t].size)])
    ELSE GraphQLRequest("confirmFileUpload", [url |-> JStr(xf[t].url)])
XferCall(t) ==
    IF site[t] \in DownloadSites
    THEN GraphQLRequest("requestDownloadURL", [file |-> JStr(xf[t].name)])
    ELSE IF xf[t].phase = "url"
    THEN GraphQLRequest("requestUploadURL",
                        [name |-> JStr(xf[t].name), size |-> JNum(xf[t].size)])
    ELSE GraphQLRequest("confirmFileUpload", [url |-> JStr(xf[t].url)])

\* GraphQL: SendRequest of the query; the reply is awaited next
GraphQL(t) ==
    /\ pc[t] = "gql"
    /\ SendRequest(t, XferCall(t), site[t])

\* the reply GraphQL was waiting for
XferReply(t) == Head(chans[myChan[t]].buf)
XferRecv(t) == chans' = [chans EXCEPT ![myChan[t]] = ChanRecv(@)]
XferPanic == crashed' = TRUE /\ UNCHANGED <<chans, pc, ret, xf, io, exitCode, progressFn>>

\* an upload after GraphQL returned from the upload URL request
UploadURLReply(t) ==
    /\ pc[t] = "await"
    /\ site[t] \in UploadSites
    /\ xf[t].phase = "url"
    /\ ChanCanRecv(chans[myChan[t]])
    /\ LET g == GraphQLResult(XferReply(t))
           f == DataField(g.result, "requestUploadURL")
           failed == IF site[t] = "Upload" THEN Log(io, t, "ERROR", "Upload failed") ELSE io
       IN
       IF ~g.ok
       THEN /\ XferStep(t, "done",
                        [err |-> NewFileUploadError(Message(
                            IF site[t] = "UploadContent" THEN "Content upload failed"
                            ELSE "Upload failed"))],
                        xf[t], failed)
            /\ XferRecv(t) /\ UNCHANGED <<crashed, exitCode, progressFn>>
       ELSE IF f.panic
       THEN XferPanic
       ELSE IF ~IsString(f.v)
       THEN /\ XferStep(t, "done",
                        [err |-> NewFileUploadError(Message("Failed to get upload URL from response"))],
                        xf[t], io)
            /\ XferRecv(t) /\ UNCHANGED <<crashed, exitCode, progressFn>>
       ELSE /\ XferStep(t, "put", ret[t],
                        [xf[t] EXCEPT !.url = f.v.s, !.phase = "put"],
                        IF site[t] = "Upload"
                        THEN Log(io, t, "DEBUG", "Upload URL received") ELSE io)
            /\ XferRecv(t) /\ UNCHANGED <<crashed, exitCode, progressFn>>
    /\ UNCHANGED site
    /\ XferFrame

\* an upload's PUT of the content to the URL it was given
UploadPut(t) ==
    /\ pc[t] = "put"
    /\ \E rd \in Reads, resp \in PutResponses :
         \* Upload reads the file now; the other two already hold the bytes
         /\ site[t] # "Upload" => rd = [ok |-> TRUE, bytes |-> xf[t].content]
         /\ IF ~rd.ok
            THEN XferStep(t, "done", [err |-> NewFileUploadError(Message("Failed to read file"))],
                          xf[t], io)
            ELSE LET r == httpPutRequest(resp)
                     sent == IoHttp(io, t, "PUT", xf[t].url, Len(rd.bytes), resp)
                     \* progressFn(0, size) before the PUT, (size, size) after it
                     before == ReportProgress(xf[t].progress, progressFn, 0, xf[t].size)
                     after == ReportProgress(before, progressFn, xf[t].size, xf[t].size)
                 IN
                 IF ~r.ok
                 THEN XferStep(t, "done",
                               [err |-> NewFileUploadError(StatusMessage("S3 upload failed", r.status))],
                               [xf[t] EXCEPT !.content = rd.bytes, !.progress = before], sent)
                 ELSE XferStep(t, "gql", ret[t],
                               [xf[t] EXCEPT !.content = rd.bytes, !.phase = "confirm",
                                             !.progress = after],
                               IF site[t] = "Upload"
                               THEN Log(sent, t, "DEBUG", "File uploaded to S3") ELSE sent)
    /\ UNCHANGED <<chans, crashed, exitCode, progressFn, site>>
    /\ XferFrame

\* an upload after GraphQL returned from the confirmation
UploadConfirmReply(t) ==
    /\ pc[t] = "await"
    /\ site[t] \in UploadSites
    /\ xf[t].phase = "confirm"
    /\ ChanCanRecv(chans[myChan[t]])
    /\ LET g == GraphQLResult(XferReply(t))
           f == DataField(g.result, "confirmFileUpload")
       IN
       IF ~g.ok
       THEN /\ XferStep(t, "done",
                        [err |-> NewFileUploadError(Message("Upload confirmation failed"))],
                        xf[t], io)
            /\ XferRecv(t) /\ UNCHANGED <<crashed, exitCode, progressFn>>
       ELSE IF f.panic
       THEN XferPanic
       ELSE IF ~(f.v.t = "bool" /\ f.v.b)
       THEN /\ XferStep(t, "done",
                        [err |-> NewFileUploadError(Message("Upload confirmation failed"))],
                        xf[t], io)
            /\ XferRecv(t) /\ UNCHANGED <<crashed, exitCode, progressFn>>
       ELSE /\ XferStep(t, "done", [err |-> NilError],
                        [xf[t] EXCEPT !.phase = "confirmed"],
                        IF site[t] = "Upload"
                        THEN Log(Log(io, t, "DEBUG", "Upload confirmed"),
                                 t, "INFO", "Upload completed")
                        ELSE Log(io, t, "INFO", "Upload completed"))
            /\ XferRecv(t) /\ UNCHANGED <<crashed, exitCode, progressFn>>
    /\ UNCHANGED site
    /\ XferFrame

\* a download after GraphQL returned from the download URL request
DownloadURLReply(t) ==
    /\ pc[t] = "await"
    /\ site[t] \in DownloadSites
    /\ ChanCanRecv(chans[myChan[t]])
    /\ LET g == GraphQLResult(XferReply(t))
           f == DataField(g.result, "requestDownloadURL")
       IN
       IF ~g.ok
       THEN /\ XferStep(t, "done",
                        [stream |-> NoStream, content |-> NoContent,
                         err |-> NewFileDownloadError(Message("Download failed"))],
                        xf[t], Log(io, t, "ERROR", "Download failed"))
            /\ XferRecv(t) /\ UNCHANGED <<crashed, exitCode, progressFn>>
       ELSE IF f.panic
       THEN XferPanic
       ELSE IF ~IsString(f.v)
       THEN /\ XferStep(t, "done",
                        [stream |-> NoStream, content |-> NoContent,
                         err |-> NewFileDownloadError(Message("Failed to get download URL from response"))],
                        xf[t], io)
            /\ XferRecv(t) /\ UNCHANGED <<crashed, exitCode, progressFn>>
       ELSE /\ XferStep(t, "get", ret[t],
                        [xf[t] EXCEPT !.url = f.v.s, !.phase = "get"],
                        Log(io, t, "DEBUG", "Download URL received"))
            /\ XferRecv(t) /\ UNCHANGED <<crashed, exitCode, progressFn>>
    /\ UNCHANGED site
    /\ XferFrame

\* &DownloadStreamResult{Stream: resp.Body, ContentLength: resp.ContentLength}
DownloadStreamResult_BodyLength(resp) ==
    [nil |-> FALSE, Stream |-> [body |-> resp.body, readErr |-> resp.readErr],
     ContentLength |-> Len(resp.body)]
DownloadStreamResult(resp) ==
    [nil |-> FALSE, Stream |-> [body |-> resp.body, readErr |-> resp.readErr],
     ContentLength |-> resp.clen]

\* http.Get of the URL and what DownloadStream, then Download, return
DownloadGet(t) ==
    /\ pc[t] = "get"
    /\ \E resp \in GetResponses :
         LET got == IoHttp(io, t, "GET", xf[t].url, 0, resp) IN
         IF resp.net = "error"
         THEN XferStep(t, "done",
                       [stream |-> NoStream, content |-> NoContent,
                        err |-> NewFileDownloadError(Message("Download failed"))],
                       xf[t], got)
         ELSE IF resp.status # 200
         THEN XferStep(t, "done",
                       [stream |-> NoStream, content |-> NoContent,
                        err |-> NewFileDownloadError(StatusMessage("Download failed with status", resp.status))],
                       xf[t], got)
         ELSE LET result == DownloadStreamResult(resp) IN
              IF site[t] = "DownloadStream"
              THEN XferStep(t, "done",
                            [stream |-> result, content |-> NoContent, err |-> NilError],
                            [xf[t] EXCEPT !.phase = "streaming"], got)
              ELSE IF result.Stream.readErr
              THEN XferStep(t, "done",
                            [stream |-> NoStream, content |-> NoContent,
                             err |-> NewFileDownloadError(Message("Failed to read download content"))],
                            xf[t], got)
              ELSE XferStep(t, "done",
                            [stream |-> NoStream,
                             content |-> [nil |-> FALSE, bytes |-> result.Stream.body],
                             err |-> NilError],
                            [xf[t] EXCEPT !.phase = "downloaded"],
                            Log(got, t, "INFO", "Download completed"))
    /\ UNCHANGED <<chans, crashed, exitCode, progressFn, site>>
    /\ XferFrame

\* the application calls GraphQL itself: SendRequest of its query
CallGraphQL(t) ==
    /\ pc[t] = "idle"
    /\ SendRequest(t, GraphQLRequest("query", EmptyMap), "GraphQL")

\* GraphQL returns to the application what the reply gave
GraphQLReturn(t) ==
    /\ pc[t] = "await"
    /\ site[t] = "GraphQL"
    /\ ChanCanRecv(chans[myChan[t]])
    /\ LET g == GraphQLResult(XferReply(t)) IN
       XferStep(t, "done",
                [result |-> IF g.ok THEN [nil |-> FALSE, map |-> g.result]
                                    ELSE [nil |-> TRUE, map |-> EmptyMap],
                 err |-> g.err],
                xf[t], io)
    /\ XferRecv(t)
    /\ UNCHANGED <<crashed, exitCode, progressFn, site>>
    /\ XferFrame

\* --------------------------------------------------------- file deletion
DeleteSites == {"DeleteFile", "DeleteFolder"}
\* the field of the mutation's result that carries the outcome
DeleteField(fn) == IF fn = "DeleteFile" THEN "deleteFile" ELSE "deleteFolder"
\* replies of the host to the delete mutations
DeleteResult(field, v) == JObj([data |-> JObj([x \in {field} |-> v])])
DeleteResults ==
    {DeleteResult(f, v) : f \in {"deleteFile", "deleteFolder"},
                          v \in {JBool(TRUE), JBool(FALSE), JStr("true")}}
    \cup {JObj(EmptyMap), JObj([data |-> JNull]), JStr("r1")}
DeleteLines ==
    {Json([id |-> JStr(generateID(n)), result |-> r]) : n \in 1..NumIds, r \in DeleteResults}
    \cup {Json([id |-> JStr(generateID(n)), error |-> JStr("e1")]) : n \in 1..NumIds}
DeleteAnswers == {l \in DeleteLines : l.data.id \in Requested}

\* DeleteFile / DeleteFolder: the GraphQL call of the mutation
DeleteFile(t) ==
    /\ pc[t] = "idle"
    /\ \E fn \in DeleteSites :
         SendRequest(t, GraphQLRequest(DeleteField(fn), [uuid |-> JStr("f")]), fn)

\* success, ok := result["data"].(map[string]interface{})[field].(bool)
DeleteOutcome(v) ==
    IF v.t = "bool" THEN [ok |-> TRUE, success |-> v.b]
    ELSE [ok |-> FALSE, success |-> FALSE]

\* DeleteFile / DeleteFolder after GraphQL returned
DeleteFileReturn(t) ==
    /\ pc[t] = "await"
    /\ site[t] \in DeleteSites
    /\ ChanCanRecv(chans[myChan[t]])
    /\ LET g == GraphQLResult(XferReply(t))
           f == DataField(g.result, DeleteField(site[t]))
           o == DeleteOutcome(f.v)
       IN
       IF ~g.ok
       THEN /\ XferStep(t, "done", [success |-> FALSE], xf[t],
                        Log(io, t, "ERROR", "Failed to delete"))
            /\ XferRecv(t) /\ UNCHANGED <<crashed, exitCode, progressFn>>
       ELSE IF f.panic
       THEN XferPanic
       ELSE IF ~o.ok
       THEN /\ XferStep(t, "done", [success |-> FALSE], xf[t],
                        Log(io, t, "WARN", "Unexpected response format for deletion"))
            /\ XferRecv(t) /\ UNCHANGED <<crashed, exitCode, progressFn>>
       ELSE /\ XferStep(t, "done", [success |-> o.success], xf[t],
                        IF o.success THEN Log(io, t, "INFO", "Deleted")
                        ELSE Log(io, t, "WARN", "Deletion failed"))
            /\ XferRecv(t) /\ UNCHANGED <<crashed, exitCode, progressFn>>
    /\ UNCHANGED site
    /\ XferFrame

\* ------------------------------------------------------------------ specs
\* Transport, correlator and dispatcher under application goroutines that
\* call GetTask, UpdateTask and RegisterHandler.
Next ==
    /\ ~crashed
    /\ \/ HostWrite(CorrLines)
       \/ OpenPipe
       \/ LogPrintf
       \/ handleRequestLookup
       \/ handleRequestUnlock
       \/ HandlerReturn
       \/ handleResponseLookup
       \/ handleResponseUnlock
       \/ handleResponseDeliver
       \/ \E t \in Tasks : GetTask(t)
       \/ \E t \in Tasks : SendRequestUnlock(t)
       \/ \E t \in Tasks : SendRequestWrite(t)
       \/ \E t \in Tasks : GetTaskReturn(t)
       \/ \E t \in Tasks : UpdateTask(t)
       \/ \E t \in Tasks : RegisterHandler(t)
       \/ \E t \in Tasks : RegisterHandlerUnlock(t)

Spec == Init /\ [][Next]_vars

\* The reader and the application goroutines are goroutines of one Go
\* program: the scheduler runs each of them whenever it can take a step.
ReaderStep ==
    /\ ~crashed
    /\ \/ OpenPipe
       \/ LogPrintf
       \/ handleRequestLookup
       \/ handleRequestUnlock
       \/ HandlerReturn
       \/ handleResponseLookup
       \/ handleResponseUnlock
       \/ handleResponseDeliver

TaskStep(t) ==
    /\ ~crashed
    /\ \/ SendRequestUnlock(t)
       \/ SendRequestWrite(t)
       \/ GetTaskReturn(t)
       \/ RegisterHandlerUnlock(t)

FairSpec ==
    /\ Init
    /\ [][Next]_vars
    /\ WF_vars(ReaderStep)
    /\ \A t \in Tasks : WF_vars(TaskStep(t))

\* ---- the file transfers: one goroutine runs transfers while the reader
\* delivers what the host answers; no handlers are registered
InitXfer == Init /\ handlers = EmptyMap
XferTasks == {CHOOSE t \in Tasks : TRUE}

NextXfer ==
    /\ ~crashed
    /\ \/ HostWrite(XferAnswers)
       \/ OpenPipe
       \/ LogPrintf
       \/ handleResponseLookup
       \/ handleResponseUnlock
       \/ handleResponseDeliver
       \/ \E t \in XferTasks :
            \/ Upload(t)
            \/ UploadStream(t)
            \/ UploadContent(t)
            \/ DownloadStream(t)
            \/ CallGraphQL(t)
            \/ GraphQLReturn(t)
            \/ GraphQL(t)
            \/ SendRequestUnlock(t)
            \/ SendRequestWrite(t)
            \/ UploadURLReply(t)
            \/ UploadPut(t)
            \/ UploadConfirmReply(t)
            \/ DownloadURLReply(t)
            \/ DownloadGet(t)

SpecXfer == InitXfer /\ [][NextXfer]_vars

\* ---- the task's life cycle: goroutines fetch, update and close the task
\* while the reader delivers replies; os.Exit stops everything
NextTask ==
    /\ ~crashed
    /\ exitCode = NoExit
    /\ \/ HostWrite(ReplyLines)
       \/ OpenPipe
       \/ LogPrintf
       \/ handleResponseLookup
       \/ handleResponseUnlock
       \/ handleResponseDeliver
       \/ \E t \in Tasks :
            \/ GetTask(t)
            \/ SendRequestUnlock(t)
            \/ SendRequestWrite(t)
            \/ GetTaskReturn(t)
            \/ UpdateTask(t)
            \/ CloseTask(t)
            \/ CloseTaskExit(t)

SpecTask == Init /\ [][NextTask]_vars

\* ---- file deletion: one goroutine deletes a file or a folder while the
\* reader delivers what the host answers
NextDelete ==
    /\ ~crashed
    /\ \/ HostWrite(DeleteAnswers)
       \/ OpenPipe
       \/ LogPrintf
       \/ handleResponseLookup
       \/ handleResponseUnlock
       \/ handleResponseDeliver
       \/ \E t \in XferTasks :
            \/ DeleteFile(t)
            \/ SendRequestUnlock(t)
            \/ SendRequestWrite(t)
            \/ DeleteFileReturn(t)

SpecDelete == InitXfer /\ [][NextDelete]_vars

\* ---- everything that takes the lock or waits outside it: one goroutine
\* runs a download, the others register handlers, and the reader delivers
\* replies and dispatches requests
NextLock ==
    /\ ~crashed
    /\ \/ HostWrite(XferAnswers \cup RequestLines)
       \/ ReaderStep
       \/ \E t \in XferTasks :
            \/ DownloadStream(t)
            \/ GraphQL(t)
            \/ SendRequestUnlock(t)
            \/ SendRequestWrite(t)
            \/ DownloadURLReply(t)
            \/ DownloadGet(t)
       \/ \E t \in Tasks \ XferTasks :
            \/ RegisterHandler(t)
            \/ RegisterHandlerUnlock(t)

SpecLock == Init /\ [][NextLock]_vars

\* ---- the uploads of an application that may pass a progress callback: one
\* goroutine runs an upload while the reader delivers what the host answers
InitUpload == InitState /\ handlers = EmptyMap /\ progressFn \in ProgressFns
\* what the host answers an upload's calls: a URL, a confirmation, an error
UploadLines ==
    {Json([id |-> JStr(generateID(n)), result |-> r]) :
        n \in 1..NumIds,
        r \in {UploadURLResult("u1"), ConfirmResult(JBool(TRUE)), ConfirmResult(JBool(FALSE))}}
    \cup {Json([id |-> JStr(generateID(n)), error |-> JStr("e1")]) : n \in 1..NumIds}
UploadAnswers == {l \in UploadLines : l.data.id \in Requested}

NextUpload ==
    /\ ~crashed
    /\ \/ HostWrite(UploadAnswers)
       \/ OpenPipe
       \/ LogPrintf
       \/ handleResponseLookup
       \/ handleResponseUnlock
       \/ handleResponseDeliver
       \/ \E t \in XferTasks :
            \/ Upload(t)
            \/ UploadStream(t)
            \/ UploadContent(t)
            \/ GraphQL(t)
            \/ SendRequestUnlock(t)
            \/ SendRequestWrite(t)
            \/ UploadURLReply(t)
            \/ UploadPut(t)
            \/ UploadConfirmReply(t)

SpecUpload == InitUpload /\ [][NextUpload]_vars

\* ---- handlers that make a correlated call: m1 is registered, its handler
\* may call GetTask before it returns; application goroutines call GetTask
InitHandlerCalls == Init /\ handlers = [m1 |-> "h1"]
HandlerCallLines == ReplyLines \cup {Json([method |-> JStr("m1"), params |-> JStr("p1")])}

NextHandlerCalls ==
    /\ ~crashed
    /\ \/ HostWrite(HandlerCallLines)
       \/ OpenPipe
       \/ LogPrintf
       \/ handleRequestLookup
       \/ handleRequestUnlock
       \/ HandlerGetTask
       \/ HandlerReturn
       \/ handleResponseLookup
       \/ handleResponseUnlock
       \/ handleResponseDeliver
       \/ \E t \in Tasks : GetTask(t)
       \/ \E g \in Goroutines : SendRequestUnlock(g)
       \/ \E g \in Goroutines : SendRequestWrite(g)
       \/ \E g \in Goroutines : GetTaskReturn(g)

SpecHandlerCalls == InitHandlerCalls /\ [][NextHandlerCalls]_vars

\* ---- the end of the read loop: the host answers calls, writes a line over
\* the limit or closes the stream, while application goroutines call GetTask
EndLines == ReplyLines \cup {TooLong, Eof}

NextEnd ==
    /\ ~crashed
    /\ \/ HostWrite(EndLines)
       \/ OpenPipe
       \/ LogPrintf
       \/ handleResponseLookup
       \/ handleResponseUnlock
       \/ handleResponseDeliver
       \/ \E t \in Tasks : GetTask(t)
       \/ \E t \in Tasks : SendRequestUnlock(t)
       \/ \E t \in Tasks : SendRequestWrite(t)
       \/ \E t \in Tasks : GetTaskReturn(t)

SpecEnd == Init /\ [][NextEnd]_vars

\* ----------------------------------------------------------------- claims
ChanIds == 1..Len(chans)
\* no other call was issued under the id of call c
DistinctId(c) == \A d \in ChanIds \ {c} : chans[d].id # chans[c].id
\* call c is in the registry under its id
Registered(c) == Has(rpcCallbacks, chans[c].id) /\ rpcCallbacks[chans[c].id] = c
\* the reader has taken c out of the registry and is about to deliver to it
InFlight(c) == rpc \in {"hresp_unlock", "hresp_send"} /\ rfound.exists /\ rfound.ch = c
Delivered(c) == Len(chans[c].sent) = 1
\* the reader takes a step
ReaderMoves == rpc' # rpc \/ (inbound # <<>> /\ inbound' = Tail(inbound))

\* C1: with distinct ids, every call's channel gets exactly one Response: a
\* call leaves the registry only by being delivered to, what is delivered
\* carries the call's own id and the result and error of the reply line with
\* that id, and the caller returns that result or error.
C1_Inv ==
    /\ \A c \in ChanIds : DistinctId(c) =>
         /\ Len(chans[c].sent) <= 1
         /\ (Registered(c) /\ ~InFlight(c) /\ ~Delivered(c))
            \/ (~Registered(c) /\ InFlight(c) /\ ~Delivered(c))
            \/ (~Registered(c) /\ ~InFlight(c) /\ Delivered(c))
         /\ Delivered(c) => chans[c].sent[1].ID = chans[c].id /\ chans[c].closed
    /\ \A t \in Tasks : (pc[t] = "done" /\ site[t] = "GetTask" /\ DistinctId(myChan[t])) =>
         LET r == chans[myChan[t]].sent[1] IN
         /\ chans[myChan[t]].owner = t
         /\ ret[t] = IF r.Error # JNull
                     THEN [result |-> JNull, err |-> r.Error]
                     ELSE [result |-> r.Result, err |-> JNull]
C1_Step ==
    (rpc = "hresp_send" /\ rpc' = "scan" /\ ~crashed') =>
        LET c == rfound.ch IN
        /\ chans'[c].sent = <<[ID |-> chans[c].id,
                               Result |-> Get(cur.data, "result"),
                               Error |-> Get(cur.data, "error")]>>
        /\ FormatV(Get(cur.data, "id")) = chans[c].id
        /\ \A d \in ChanIds \ {c} : chans'[d] = chans[d]
C1_ExactlyOnce == []C1_Inv /\ [][C1_Step]_vars
\* two calls with distinct ids have both returned, each with its own reply
C1_Witness ==
    /\ Len(chans) = 2 /\ chans[1].id # chans[2].id
    /\ \A t \in Tasks : pc[t] = "done" /\ site[t] = "GetTask"
    /\ ret[1] # ret[2]

\* C2: a pending call is fulfilled at most once: no channel is ever sent to
\* twice, none is sent to or closed after it was closed (the process does
\* not panic), and a reply whose id was already consumed is logged and
\* dropped and the loop goes on to the next line.
C2_Inv ==
    /\ ~crashed
    /\ \A c \in ChanIds : Len(chans[c].sent) <= 1
    /\ rpc = "hresp_send" => ~chans[rfound.ch].closed
C2_Step ==
    (rpc = "hresp_unlock" /\ ~rfound.exists /\ ReaderMoves) =>
        /\ rpc' = "log"
        /\ lastLog' = "RPC callback not registered"
        /\ UNCHANGED <<chans, rpcCallbacks>>
C2_AtMostOnce == []C2_Inv /\ [][C2_Step]_vars
\* a second reply for an id whose call was already delivered to is being dropped
C2_Witness ==
    /\ rpc = "hresp_unlock" /\ ~rfound.exists
    /\ \E c \in ChanIds : /\ chans[c].id = MakeResponse(cur.data).ID
                          /\ chans[c].closed /\ DistinctId(c)

\* C3: a reply whose id is not in the registry leaves the registry and all
\* channels as they were, from the lookup to the return to the loop.
C3_Step ==
    /\ (rpc = "hresp" /\ ReaderMoves /\ ~Has(rpcCallbacks, FormatV(Get(cur.data, "id")))) =>
          /\ UNCHANGED <<rpcCallbacks, chans>>
          /\ rfound' = NotFound
    /\ (rpc = "hresp_unlock" /\ ~rfound.exists /\ ReaderMoves) =>
          /\ UNCHANGED <<rpcCallbacks, chans>>
          /\ rpc' = "log"
    /\ (rpc = "log" /\ ReaderMoves) =>
          /\ UNCHANGED <<rpcCallbacks, chans>>
          /\ rpc' = "scan"
C3_UnknownReplyDiscarded == [][C3_Step]_vars
\* an unknown reply was dropped while another call is pending and registered
C3_Witness ==
    /\ rpc = "log" /\ lastLog = "RPC callback not registered"
    /\ \E c \in ChanIds : Registered(c) /\ ~Delivered(c)

\* C4: a line that does not decode is logged and skipped: registry, handler
\* table and channels are unchanged and the loop is back at reading the
\* next line.
C4_Step ==
    /\ (rpc = "scan" /\ inbound # <<>> /\ Head(inbound).kind = "malformed"
           /\ inbound' = Tail(inbound)) =>
          /\ UNCHANGED <<rpcCallbacks, handlers, chans, io>>
          /\ rpc' = "log"
          /\ lastLog' = "Received invalid JSON"
    /\ (rpc = "log" /\ lastLog = "Received invalid JSON" /\ ReaderMoves) =>
          /\ UNCHANGED <<rpcCallbacks, handlers, chans, io>>
          /\ rpc' = "scan"
C4_MalformedSkipped == [][C4_Step]_vars
\* a malformed line is being skipped while a call is pending and a valid line follows
C4_Witness ==
    /\ lastLog = "Received invalid JSON"
    /\ rpc = "log"
    /\ inbound # <<>> /\ Head(inbound).kind = "json"
    /\ \E c \in ChanIds : Registered(c)

\* a reply line whose id formats to the id of call c is unread on the stream
ReplyQueued(c) ==
    /\ inbound # <<>>
    /\ Head(inbound).kind = "json"
    /\ Classify(Head(inbound).data) = "response"
    /\ FormatV(Get(Head(inbound).data, "id")) = chans[c].id
\* calls c and d are both outstanding, under different ids
TwoPending(c, d) ==
    /\ c # d
    /\ Registered(c) /\ Registered(d)
    /\ chans[c].id # chans[d].id

IsCall(e) == e.ch = "stdout" /\ Has(e.msg, "id")
IsHttp(e, verb) == e.ch = "http" /\ e.verb = verb
\* the correlated calls and bulk requests of goroutine t, in program order
Interactions(t) == SelectSeq(io[t], LAMBDA e : e.ch = "http" \/ IsCall(e))
IsQuery(e, query) ==
    /\ IsCall(e)
    /\ e.msg.method = JStr("eywa.datasets.graphql")
    /\ e.msg.params.o.query = JStr(query)
\* the Responses delivered to the calls of goroutine t, in the order of the calls
Answers(t) == SelectSeq(chans, LAMBDA c : c.owner = t /\ c.sent # <<>>)
PutsOf(t) == SelectSeq(io[t], LAMBDA e : IsHttp(e, "PUT"))
GetsOf(t) == SelectSeq(io[t], LAMBDA e : IsHttp(e, "GET"))
PutFailed(e) == e.resp.net = "error" \/ e.resp.status # 200
\* the control channel answered u to the URL request and true to the
\* confirmation, and the bulk channel answered 200 to the PUT
HappyUpload(t, u) ==
    /\ Len(Answers(t)) = 2
    /\ Answers(t)[1].sent[1].Error = JNull
    /\ Answers(t)[1].sent[1].Result = UploadURLResult(u)
    /\ Answers(t)[2].sent[1].Error = JNull
    /\ Answers(t)[2].sent[1].Result = ConfirmResult(JBool(TRUE))
    /\ Len(PutsOf(t)) >= 1
    /\ ~PutFailed(PutsOf(t)[1])

\* C6: an upload that was answered a URL, 200 and true has returned nil and
\* made exactly three interactions: the URL request, then one PUT of the
\* content to the URL it was given, then the confirmation naming that URL.
C6_HappyPath ==
    \A t \in Tasks, u \in URLs :
        (site[t] \in UploadSites /\ pc[t] = "done" /\ HappyUpload(t, u)) =>
            LET I == Interactions(t) IN
            /\ ret[t].err = NilError
            /\ Len(I) = 3
            /\ IsQuery(I[1], "requestUploadURL")
            /\ IsHttp(I[2], "PUT") /\ I[2].url = u /\ I[2].len = Len(xf[t].content)
            /\ IsQuery(I[3], "confirmFileUpload")
            /\ I[3].msg.params.o.variables.o.url = JStr(u)
\* an upload went through its three steps with the second URL and returned nil
C6_Witness ==
    \E t \in Tasks :
        /\ site[t] = "Upload" /\ pc[t] = "done"
        /\ HappyUpload(t, "u2")
        /\ ret[t].err = NilError
        /\ Len(Interactions(t)) = 3

\* C7: an upload whose PUT ended in a transport error or a status other
\* than 200 has returned a FileUploadError, and its goroutine has sent no
\* confirmation (it made no interaction after the PUT).
C7_PutFailureStops ==
    \A t \in Tasks :
        (site[t] \in UploadSites /\ \E i \in 1..Len(PutsOf(t)) : PutFailed(PutsOf(t)[i])) =>
            LET I == Interactions(t) IN
            /\ pc[t] = "done"
            /\ ret[t].err.type = "FileUploadError"
            /\ \A i \in 1..Len(I) : ~IsQuery(I[i], "confirmFileUpload")
            /\ IsHttp(I[Len(I)], "PUT")
\* a stream upload's PUT was answered with 204
C7_Witness ==
    \E t \in Tasks :
        /\ site[t] = "UploadStream"
        /\ Len(PutsOf(t)) = 1
        /\ PutsOf(t)[1].resp = [net |-> "ok", status |-> 204]
        /\ pc[t] = "done"

\* the stream upload of goroutine t read its source to the end
StreamRead(t) == site[t] = "UploadStream" /\ xf[t] # NoXfer

\* C8: a stream upload that read a number of bytes other than the declared
\* size has returned a FileUploadError having made no correlated call and
\* no PUT.
C8_SizeMismatchFailsFirst ==
    \A t \in Tasks :
        (StreamRead(t) /\ Len(xf[t].content) # xf[t].size) =>
            /\ pc[t] = "done"
            /\ ret[t].err.type = "FileUploadError"
            /\ Interactions(t) = <<>>
\* a stream declared empty gave one byte; only the start notification was written
C8_Witness ==
    \E t \in Tasks :
        /\ StreamRead(t)
        /\ xf[t].size = 0 /\ Len(xf[t].content) = 1
        /\ pc[t] = "done"
        /\ Len(io[t]) = 1 /\ ~IsCall(io[t][1])

\* the GET of goroutine t was answered 200 with a body that reads to its end
GotBody(t) ==
    /\ site[t] \in DownloadSites
    /\ Len(GetsOf(t)) = 1
    /\ GetsOf(t)[1].resp.net = "ok"
    /\ GetsOf(t)[1].resp.status = 200
    /\ ~GetsOf(t)[1].resp.readErr

\* C9: after a GET answered 200 with body B and content length L,
\* DownloadStream has returned a stream that yields B with ContentLength L
\* and no error, and Download has returned the bytes B and no error.
C9_DownloadSuccess ==
    \A t \in Tasks :
        GotBody(t) =>
            LET r == GetsOf(t)[1].resp IN
            /\ pc[t] = "done"
            /\ ret[t].err = NilError
            /\ site[t] = "DownloadStream" =>
                 /\ ~ret[t].stream.nil
                 /\ ret[t].stream.Stream = [body |-> r.body, readErr |-> FALSE]
                 /\ ret[t].stream.ContentLength = r.clen
            /\ site[t] = "Download" =>
                 ret[t].content = [nil |-> FALSE, bytes |-> r.body]
\* a one-byte body of unadvertised length was returned as a stream
C9_Witness ==
    \E t \in Tasks :
        /\ GotBody(t) /\ site[t] = "DownloadStream" /\ pc[t] = "done"
        /\ GetsOf(t)[1].resp.body = <<"b">>
        /\ GetsOf(t)[1].resp.clen = -1
        /\ ret[t].stream.Stream.body = <<"b">>

\* the GET of goroutine t was answered with a status other than 200
GotStatus(t) ==
    /\ site[t] \in DownloadSites
    /\ Len(GetsOf(t)) = 1
    /\ GetsOf(t)[1].resp.net = "ok"
    /\ GetsOf(t)[1].resp.status # 200

\* C10: after a GET answered with a status other than 200, DownloadStream
\* and Download have returned no stream and no content but a
\* FileDownloadError whose message names that status.
C10_DownloadStatusError ==
    \A t \in Tasks :
        GotStatus(t) =>
            /\ pc[t] = "done"
            /\ ret[t].stream = NoStream
            /\ ret[t].content = NoContent
            /\ ret[t].err.type = "FileDownloadError"
            /\ ret[t].err.Message.code = GetsOf(t)[1].resp.status
\* Download failed on a 404
C10_Witness ==
    \E t \in Tasks :
        /\ GotStatus(t) /\ site[t] = "Download" /\ pc[t] = "done"
        /\ GetsOf(t)[1].resp.status = 404
        /\ ret[t].err.type = "FileDownloadError"

\* the first Response delivered to a call of goroutine t: the URL request's
URLAnswer(t) == Answers(t)[1].sent[1]
\* goroutine t has taken that Response off its channel
URLAnswerTaken(t) == Answers(t)[1].buf = <<>>
\* a Response that carries no error and a result whose data object has a
\* string under field
HasURL(response, field) ==
    /\ response.Error = JNull
    /\ response.Result.t = "obj"
    /\ Get(response.Result.o, "data").t = "obj"
    /\ IsString(Get(Get(response.Result.o, "data").o, field))
\* the download of goroutine t was answered without a URL
NoDownloadURL(t) ==
    /\ site[t] \in DownloadSites
    /\ Len(Answers(t)) >= 1
    /\ ~HasURL(URLAnswer(t), "requestDownloadURL")

\* C11: a download whose URL request was answered with an error or without
\* the URL field makes no GET and, once it has taken the answer, has
\* returned a FileDownloadError and no stream (the process goes on); a GET
\* is only made to a URL the answer carried.
C11_NoGetWithoutURL ==
    \A t \in Tasks :
        /\ NoDownloadURL(t) =>
             /\ GetsOf(t) = <<>>
             /\ ~crashed
             /\ URLAnswerTaken(t) =>
                  /\ pc[t] = "done"
                  /\ ret[t].err.type = "FileDownloadError"
                  /\ ret[t].stream = NoStream
        /\ (site[t] \in DownloadSites /\ GetsOf(t) # <<>>) =>
             /\ Len(Answers(t)) >= 1
             /\ HasURL(URLAnswer(t), "requestDownloadURL")
             /\ JStr(GetsOf(t)[1].url) =
                  Get(Get(URLAnswer(t).Result.o, "data").o, "requestDownloadURL")

\* C12: no two calls are issued under the same id, and a call that has not
\* been answered keeps its own entry in the registry (no later call
\* overwrites it).
C12_UniqueIds ==
    \A c \in ChanIds :
        /\ DistinctId(c)
        /\ (~Delivered(c) /\ ~InFlight(c)) => Registered(c)

\* goroutine t is inside sendJSON: its message is not yet on stdout
InSendJSON(t) == pc[t] = "sr_write"

ReadLoopEnds == rpc = "logdone" /\ rpc' = "done"
\* something an application goroutine can see happens: a channel is sent to
\* or closed, a call returns, a message is written or the process ends
Surfaced == chans' # chans \/ pc' # pc \/ ret' # ret \/ io' # io \/ crashed' # crashed
C14_Terminates ==
    /\ (rpc = "scan" /\ inbound # <<>> /\ Head(inbound).kind = "toolong"
           /\ inbound' = Tail(inbound)) => rpc' = "logdone"
    /\ rpc \in {"logdone", "done"} => rpc' \in {"logdone", "done"}

\* C14: a read error on stdin ends the read loop for good, and the end of
\* the loop is made known to the application by more than the log line.
C14_ReadErrorSurfaced ==
    [][C14_Terminates /\ (ReadLoopEnds => Surfaced)]_vars

\* the upload of goroutine t was answered without a URL
NoUploadURL(t) ==
    /\ site[t] \in UploadSites
    /\ Len(Answers(t)) >= 1
    /\ ~HasURL(URLAnswer(t), "requestUploadURL")
ConfirmsOf(t) == SelectSeq(io[t], LAMBDA e : IsQuery(e, "confirmFileUpload"))

\* C15: an upload whose URL request was answered with an error or without
\* the URL field (a result with no data object included) makes no PUT and
\* no confirmation and, once it has taken the answer, has returned a
\* FileUploadError (the process goes on).
C15_URLFailureStops ==
    \A t \in Tasks :
        NoUploadURL(t) =>
            /\ PutsOf(t) = <<>>
            /\ ConfirmsOf(t) = <<>>
            /\ ~crashed
            /\ URLAnswerTaken(t) =>
                 /\ pc[t] = "done"
                 /\ ret[t].err.type = "FileUploadError"

\* the second Response delivered to a call of upload t: the confirmation's
ConfirmAnswer(t) == Answers(t)[2].sent[1]
ConfirmAnswerTaken(t) == Answers(t)[2].buf = <<>>
\* a Response that carries no error and the boolean true as confirmation
ConfirmedTrue(response) ==
    /\ response.Error = JNull
    /\ response.Result.t = "obj"
    /\ Get(response.Result.o, "data").t = "obj"
    /\ Get(Get(response.Result.o, "data").o, "confirmFileUpload") = JBool(TRUE)

\* C16: an upload returns nil only after a confirmation answered with the
\* boolean true; every other answer to the confirmation (false, no
\* confirmation result, not a boolean, an error) makes it return a
\* FileUploadError (the process goes on).
C16_SuccessIffConfirmed ==
    \A t \in Tasks : site[t] \in UploadSites =>
        /\ (pc[t] = "done" /\ ret[t].err = NilError) =>
             Len(Answers(t)) = 2 /\ ConfirmedTrue(ConfirmAnswer(t))
        /\ Len(Answers(t)) = 2 =>
             /\ ~crashed
             /\ ConfirmAnswerTaken(t) =>
                  /\ pc[t] = "done"
                  /\ IF ConfirmedTrue(ConfirmAnswer(t))
                     THEN ret[t].err = NilError
                     ELSE ret[t].err.type = "FileUploadError"

\* the external steps of a transfer, in the order of its state machine
StepsOf(fn) ==
    IF fn \in UploadSites THEN <<"requestUploadURL", "PUT", "confirmFileUpload">>
    ELSE <<"requestDownloadURL", "GET">>
\* which step an interaction is: the verb of a bulk request, the query of a call
StepKind(e) == IF e.ch = "http" THEN e.verb ELSE e.msg.params.o.query.s
\* how far a transfer got: Init, URLObtained, BytesSent, Confirmed
PhaseRank(p) ==
    CASE p \in {"none", "url"} -> 0
      [] p \in {"put", "get"} -> 1
      [] p \in {"confirm", "streaming", "downloaded"} -> 2
      [] p = "confirmed" -> 3
      [] OTHER -> 4
Transferring(t) == site[t] \in UploadSites \cup DownloadSites
\* the bulk request of transfer t failed
BulkFailed(t) ==
    \/ \E i \in 1..Len(PutsOf(t)) : PutFailed(PutsOf(t)[i])
    \/ \E i \in 1..Len(GetsOf(t)) : PutFailed(GetsOf(t)[i])
C17_Inv ==
    \A t \in Tasks : Transferring(t) =>
        LET I == Interactions(t) IN
        /\ Len(I) <= Len(StepsOf(site[t]))
        /\ \A i \in 1..Len(I) : StepKind(I[i]) = StepsOf(site[t])[i]
        /\ (NoUploadURL(t) \/ NoDownloadURL(t)) => Len(I) = 1
        /\ BulkFailed(t) => Len(I) = 2
        /\ (pc[t] = "done" /\ ret[t].err # NilError) => xf[t].phase # "confirmed"
C17_Step ==
    \A t \in Tasks :
        /\ PhaseRank(xf'[t].phase) >= PhaseRank(xf[t].phase)
        /\ Len(io'[t]) >= Len(io[t])
        /\ pc[t] = "done" => (pc'[t] = "done" /\ io'[t] = io[t] /\ ret'[t] = ret[t])

\* C17: the interactions of a transfer are a prefix of its steps, each made
\* once and in order; its phase never goes back; a failed URL request is its
\* only interaction and a failed bulk request its last; once it has
\* returned it does nothing more.
C17_ForwardOnly == []C17_Inv /\ [][C17_Step]_vars
\* an upload returned an error after a refused confirmation: three
\* interactions and nothing after them
C17_Witness ==
    \E t \in Tasks :
        /\ site[t] \in UploadSites /\ pc[t] = "done"
        /\ Len(Interactions(t)) = 3
        /\ ret[t].err.type = "FileUploadError"
        /\ Len(Answers(t)) = 2
        /\ ConfirmAnswer(t).Result = ConfirmResult(JBool(FALSE))

\* the transfer of goroutine t returned what it was called for
Succeeded(t) == xf[t].phase \in {"confirmed", "streaming", "downloaded"}

GraphQLReturned(t) == site[t] = "GraphQL" /\ pc[t] = "done"

\* C19: GraphQL called with a reply that carries an error returns no result
\* and an error holding that error value; it returns a result, the result
\* map of the reply, exactly when the reply carries no error and its result
\* is a map.
C19_RemoteErrorSurfaced ==
    \A t \in Tasks : GraphQLReturned(t) =>
        LET response == Answers(t)[1].sent[1] IN
        /\ response.Error # JNull =>
             /\ ret[t].result.nil
             /\ ret[t].err.text = "GraphQL error"
             /\ ret[t].err.value = response.Error
        /\ ~ret[t].result.nil <=> (response.Error = JNull /\ response.Result.t = "obj")
        /\ ~ret[t].result.nil =>
             /\ ret[t].result.map = response.Result.o
             /\ ret[t].err = NoGraphQLError
        /\ ret[t].result.nil => ret[t].err # NoGraphQLError
\* GraphQL returned the error of a reply that also carried a result map
C19_Witness ==
    \E t \in Tasks :
        /\ GraphQLReturned(t)
        /\ Answers(t)[1].sent[1].Error = JStr("e1")
        /\ Answers(t)[1].sent[1].Result.t = "obj"
        /\ ret[t].result.nil
        /\ ret[t].err.value = JStr("e1")

\* the task.close notification carrying status, as it appears on stdout
CloseNote(status) ==
    [ch |-> "stdout",
     msg |-> [jsonrpc |-> JStr("2.0"), method |-> JStr("task.close"),
              params |-> JObj([status |-> JStr(status)])]]
\* goroutine t called CloseTask(status) and what it wrote is the one
\* task.close notification carrying status
Closing(t, status) == site[t] = "CloseTask" /\ io[t] = <<CloseNote(status)>>

\* C20: a goroutine in CloseTask(status) has written the task.close
\* notification with that status before the process exits; the process exits
\* only from CloseTask, with code 0 for SUCCESS and code 1 for any other
\* status.
C20_CloseTaskExit ==
    /\ \A t \in Tasks : site[t] = "CloseTask" =>
         \E status \in Statuses :
            /\ Closing(t, status)
            /\ pc[t] = "ct_exit" \/ (pc[t] = "done" /\ exitCode = IF status = "SUCCESS" THEN 0 ELSE 1)
    /\ exitCode # NoExit =>
         /\ exitCode \in {0, 1}
         /\ \E t \in Tasks : site[t] = "CloseTask" /\ pc[t] = "done"
\* the process exited with 1 after CloseTask with a status that is not a
\* constant of the package
C20_Witness ==
    \E t \in Tasks : Closing(t, "success") /\ pc[t] = "done" /\ exitCode = 1

\* Upload found no file at its path: os.Stat failed or named a directory, and
\* no file metadata was prepared
NoFileAtPath(t) == site[t] = "Upload" /\ xf[t] = NoXfer

\* C21: an Upload whose path does not exist or is a directory has returned
\* a FileUploadError naming that cause, and its goroutine has written
\* nothing to stdout and made no bulk request; an Upload that wrote or
\* requested anything had found a file at its path.
C21_NoFileFailsFirst ==
    \A t \in Tasks :
        /\ NoFileAtPath(t) =>
             /\ pc[t] = "done"
             /\ ret[t].err.type = "FileUploadError"
             /\ ret[t].err.Message.text \in
                  {"File not found", "Path is a directory, not a file"}
             /\ io[t] = <<>>
             /\ myChan[t] = NoChan
        /\ (site[t] = "Upload" /\ io[t] # <<>>) => xf[t] # NoXfer
\* Upload of a directory has returned its error; nothing was written
C21_Witness ==
    \E t \in Tasks :
        /\ NoFileAtPath(t) /\ pc[t] = "done"
        /\ ret[t].err = NewFileUploadError(Message("Path is a directory, not a file"))
        /\ io[t] = <<>>

\* the Response delivered to the delete call of goroutine t
DeleteAnswer(t) == chans[myChan[t]].sent[1]
\* goroutine t, in DeleteFile or DeleteFolder, has been answered and has
\* taken the answer off its channel
DeleteAnswered(t) ==
    /\ site[t] \in DeleteSites
    /\ myChan[t] # NoChan
    /\ DistinctId(myChan[t])
    /\ chans[myChan[t]].sent # <<>>
\* a Response that carries no error and the boolean true under field in the
\* data object of its result
DeletedTrue(response, field) ==
    /\ response.Error = JNull
    /\ response.Result.t = "obj"
    /\ Get(response.Result.o, "data").t = "obj"
    /\ Get(Get(response.Result.o, "data").o, field) = JBool(TRUE)

\* once it has taken the answer, the call has returned a boolean: true
\* exactly when the answer carries no error and the boolean true in its
\* result field
ReturnedBool ==
    \A t \in Tasks :
        (DeleteAnswered(t) /\ chans[myChan[t]].buf = <<>>) =>
            /\ pc[t] = "done"
            /\ ret[t] = [success |-> DeletedTrue(DeleteAnswer(t), DeleteField(site[t]))]

\* C22: DeleteFile and DeleteFolder never abort the process, and they
\* return true exactly when the answer carries no error and the boolean
\* true in its result field, false for every other answer (an error, no
\* data object, another type).
C22_DeleteReturnsBool == ~crashed /\ ReturnedBool

\* goroutine t calls UpdateTask in this step: one SendNotification
Notifies(t) == pc[t] = "idle" /\ site'[t] = "UpdateTask"
\* the last message goroutine t wrote
LastWritten(out, t) == out[t][Len(out[t])].msg
C23_Step ==
    \A t \in Tasks : Notifies(t) =>
        /\ Len(io'[t]) = Len(io[t]) + 1
        /\ io'[t][Len(io'[t])].ch = "stdout"
        /\ DOMAIN LastWritten(io', t) = {"jsonrpc", "method", "params"}
        /\ LastWritten(io', t).jsonrpc = JStr("2.0")
        /\ LastWritten(io', t).method = JStr("task.update")
        /\ UNCHANGED <<rpcCallbacks, chans, myChan, mu>>
C23_Inv ==
    /\ \A t \in Tasks : site[t] = "UpdateTask" =>
         /\ myChan[t] = NoChan
         /\ \A c \in ChanIds : chans[c].owner # t
    /\ rfound.exists /\ rpc \in {"hresp_unlock", "hresp_send"} =>
         site[chans[rfound.ch].owner] # "UpdateTask"

\* C23: the message SendNotification writes is the caller's payload plus
\* the protocol-version tag and has no id; the call leaves the registry and
\* the channels as they were and makes no channel of its own, so no reply
\* is ever delivered to a goroutine for its notification.
C23_NotificationUntracked == []C23_Inv /\ [][C23_Step]_vars
\* a notification was written while a call of another goroutine is
\* registered and a reply line waits on the stream
C23_Witness ==
    \E t \in Tasks :
        /\ site[t] = "UpdateTask" /\ pc[t] = "done"
        /\ Len(io[t]) = 1 /\ ~Has(io[t][1].msg, "id")
        /\ \E c \in ChanIds : Registered(c) /\ ReplyQueued(c)

\* the request of call c is with the transport: sendJSON is writing it or
\* has written it
HandedOver(c) ==
    LET t == chans[c].owner IN
    \/ myChan[t] = c /\ pc[t] = "sr_write"
    \/ \E i \in 1..Len(io[t]) : IsCall(io[t][i]) /\ io[t][i].msg.id = JStr(chans[c].id)
\* the reply line the reader holds carries the id of call c
ReplyFor(c) == cur.kind = "json" /\ MakeResponse(cur.data).ID = chans[c].id
C24_Inv ==
    \A c \in ChanIds : (DistinctId(c) /\ HandedOver(c)) =>
        /\ Registered(c) \/ InFlight(c) \/ Delivered(c)
        /\ (rpc = "hresp_unlock" /\ ReplyFor(c) /\ ~rfound.exists) => Delivered(c)
C24_Step ==
    \A c \in ChanIds :
        (rpc = "hresp" /\ rpc' = "hresp_unlock" /\ ReplyFor(c)
           /\ DistinctId(c) /\ ~Delivered(c)) =>
            rfound' = [exists |-> TRUE, ch |-> c]

\* C24: with distinct ids, a call whose request is with the transport is in
\* the registry until the reader takes it out to deliver its reply: the
\* lookup for a reply with its id finds it, and a reply with its id is
\* dropped as unknown only after one was delivered to it.
C24_RegisteredBeforeWrite == []C24_Inv /\ [][C24_Step]_vars
\* the reader found the entry of a call whose request is still being
\* written by its goroutine
C24_Witness ==
    \E c \in ChanIds :
        /\ DistinctId(c)
        /\ pc[chans[c].owner] = "sr_write"
        /\ InFlight(c) /\ ReplyFor(c)

\* where goroutine g is in its program
PosOf(position, reader, g) == IF g = Reader THEN reader ELSE position[g]
\* the places of the program inside a critical section of mu
LockedPlaces == {"sr_unlock", "rh_unlock", "hreq_unlock", "hresp_unlock"}
\* goroutine g writes a line or makes a bulk request in this step
DoesIO(g) == io'[g] # io[g]
\* a Response is sent on a channel in this step
SendsOnChannel == \E c \in ChanIds : chans'[c].sent # chans[c].sent
C25_Inv ==
    \A g \in Goroutines :
        mu = g <=> PosOf(pc, rpc, g) \in LockedPlaces
C25_Step ==
    /\ \A g \in Goroutines :
         /\ DoesIO(g) => (mu # g /\ mu' # g)
         /\ (mu = g /\ PosOf(pc', rpc', g) # PosOf(pc, rpc, g)) =>
              (mu' = NoTask /\ UNCHANGED <<io, chans, rpcCallbacks, handlers>>)
    /\ SendsOnChannel => (mu # Reader /\ mu' # Reader)

\* C25: a goroutine holds the lock only between a map operation and the
\* unlock that follows it: never while it is inside sendJSON, sends on a
\* response channel, runs a handler, writes a log line or makes a bulk
\* request; the step it takes while holding the lock is the unlock.
C25_LockOnlyAroundMaps == []C25_Inv /\ [][C25_Step]_vars
\* the reader is inside a handler that blocks and the download is about to
\* make its GET, while another goroutine holds the lock to register a handler
C25_Witness ==
    /\ rpc = "blocked"
    /\ \E t \in Tasks : pc[t] = "get"
    /\ \E t \in Tasks : pc[t] = "rh_unlock" /\ mu = t

\* a goroutine is inside a critical section of the handler table
\* (RegisterHandler, or the reader's handler lookup)
HoldsHandlerLock == (\E t \in Tasks : pc[t] = "rh_unlock") \/ rpc = "hreq_unlock"
\* a goroutine is inside a critical section of the pending-call registry
\* (SendRequest's insert, or the reader's lookup and remove)
HoldsRegistryLock == (\E t \in Tasks : pc[t] = "sr_unlock") \/ rpc = "hresp_unlock"
\* a goroutine that is about to register or to look up and remove a
\* pending call can do so now
RegistryFree ==
    /\ \A t \in Tasks : pc[t] = "idle" => ENABLED GetTask(t)
    /\ rpc = "hresp" => ENABLED handleResponseLookup
\* a goroutine that is about to register or to look up a handler can do so now
HandlerTableFree ==
    /\ \A t \in Tasks : pc[t] = "idle" => ENABLED RegisterHandler(t)
    /\ rpc = "hreq" => ENABLED handleRequestLookup

\* C26 as stated: the registry and the handler table have locks of their
\* own: while a goroutine holds the handler-table lock no goroutine has to
\* wait to register or remove a pending call, and while one holds the
\* registry lock none has to wait to register or look up a handler.
C26_IndependentLocks ==
    /\ HoldsHandlerLock => RegistryFree
    /\ HoldsRegistryLock => HandlerTableFree

\* the goroutine that holds the lock can release it now
HolderCanUnlock ==
    /\ \A t \in Tasks : mu = t => ENABLED (SendRequestUnlock(t) \/ RegisterHandlerUnlock(t))
    /\ mu = Reader => ENABLED (handleRequestUnlock \/ handleResponseUnlock)

C26_Inv ==
    /\ HoldsHandlerLock => ~HoldsRegistryLock
    /\ mu = NoTask => (RegistryFree /\ HandlerTableFree)
    /\ HolderCanUnlock
\* either table is written, and the handler table read, only by a goroutine
\* that takes mu in that step
C26_Step ==
    /\ (handlers' # handlers \/ rpcCallbacks' # rpcCallbacks) =>
         (mu = NoTask /\ mu' # NoTask)
    /\ (rpc \in {"hreq", "hresp"} /\ rpc' # rpc) => (mu = NoTask /\ mu' = Reader)

\* C26 amended: one lock guards both tables: the handler table and the
\* pending-call registry are read and written only under mu, so a
\* goroutine inside a critical section of one table excludes every
\* operation on the other; operations on either table can go ahead whenever
\* the lock is free, and the holder can always release it.
C26_OneLockForBoth == []C26_Inv /\ [][C26_Step]_vars
\* a goroutine is inside RegisterHandler while the reader has a reply to
\* look up and another goroutine is about to send a request: both wait
C26_Witness ==
    /\ \E t \in Tasks : pc[t] = "rh_unlock"
    /\ rpc = "hresp" /\ ~ENABLED handleResponseLookup
    /\ \E u \in Tasks : pc[u] = "idle" /\ ~ENABLED GetTask(u)

\* goroutine t calls RegisterHandler in this step
Registers(t) == pc[t] = "idle" /\ site'[t] = "RegisterHandler"
\* the table after method m was given handler h: h under m, the rest as it was
Reassigned(table, m, h) ==
    [x \in DOMAIN table \cup {m} |-> IF x = m THEN h ELSE table[x]]
\* the method of the Request the reader is dispatching
CurMethod == cur.data.method.s
C27_Inv ==
    \A t \in Tasks : pc[t] = "rh_unlock" => rpc # "hreq_unlock"
C27_Step ==
    /\ \A t \in Tasks : Registers(t) =>
         handlers' = Reassigned(handlers, req'[t].method, req'[t].handler)
    /\ handlers' # handlers => \E t \in Tasks : Registers(t)
    /\ (rpc = "hreq" /\ rpc' # rpc) =>
         /\ \A t \in Tasks : pc[t] # "rh_unlock"
         /\ rfound' = IF CurMethod \in DOMAIN handlers
                      THEN [exists |-> TRUE, h |-> handlers[CurMethod]]
                      ELSE NotFound
    /\ (rpc = "hreq_unlock" /\ rpc' # rpc) =>
         IF rfound.exists THEN rpc' \in HandlerOutcomes /\ rfound' = rfound
         ELSE rpc' = "log"

\* C27: a registration replaces the handler of its method and leaves the
\* other methods as they were, and nothing else changes the table; the
\* reader's lookup never overlaps a registration and reads the table as the
\* registrations completed so far left it; the handler it runs is the one
\* it found.
C27_LastWriteWins == []C27_Inv /\ [][C27_Step]_vars
\* the goroutines have registered h1 and h2 for m1, h2 last, and the reader
\* runs h2 for a Request of m1
C27_Witness ==
    /\ \A t \in Tasks : site[t] = "RegisterHandler" /\ pc[t] = "done"
    /\ {req[t] : t \in Tasks} =
         {[method |-> "m1", handler |-> "h1"], [method |-> "m1", handler |-> "h2"]}
    /\ handlers = [m1 |-> "h2"]
    /\ rpc = "handler" /\ CurMethod = "m1" /\ rfound.h = "h2"

\* the reader calls the handler it found in this step
Invokes == rpc = "hreq_unlock" /\ rpc' \in HandlerOutcomes
\* the Request the handler is called with
HandlerArg == MakeRequest(cur.data)
\* the reader is inside a handler
InHandler == rpc \in HandlerOutcomes
C28_Inv ==
    /\ io[Reader] = <<>>
    /\ InHandler =>
         /\ rfound.exists /\ rfound.h \in Handlers
         /\ cur.kind = "json" /\ Classify(cur.data) = "request"
C28_Step ==
    /\ (rpc = "hreq_unlock" /\ rfound.exists /\ rpc' # rpc) => Invokes
    /\ Invokes =>
         /\ rfound.exists
         /\ cur' = cur /\ rfound' = rfound
         /\ HandlerArg.Method = cur.data.method.s
         /\ HandlerArg.Params = (IF "params" \in DOMAIN cur.data
                                 THEN cur.data.params ELSE JNull)
         /\ HandlerArg.ID = (IF "id" \in DOMAIN cur.data
                             THEN FormatV(cur.data.id) ELSE "")
         /\ UNCHANGED <<io, rpcCallbacks, chans>>
    /\ (InHandler /\ rpc' # rpc) => (rpc' = "scan" /\ cur' = NoLine /\ io' = io)
    /\ rpc' \in HandlerOutcomes => (Invokes \/ rpc' = rpc)

\* C28: a unit whose method has a handler at the lookup leads to one call of
\* that handler: the reader enters the handler only from that lookup, with
\* the Request built from the unit (its method, its params, its id, or the
\* empty id when it has none), and leaves it only by going back to read the
\* next line; the reader itself never writes to the outbound stream.
C28_HandlerInvokedOnce == []C28_Inv /\ [][C28_Step]_vars
\* the reader runs a handler for the Request of m2 that carries the id "1"
C28_Witness ==
    /\ rpc = "handler"
    /\ CurMethod = "m2"
    /\ HandlerArg = [Method |-> "m2", Params |-> JNull, ID |-> generateID(1)]
    /\ io[Reader] = <<>>

\* the reader's lookup found no handler for the unit it holds
NoHandlerFound == rpc = "hreq_unlock" /\ ~rfound.exists
\* the reader is writing the log line about the missing handler
LogsNoHandler == rpc = "log" /\ lastLog = "no registered handler"
\* what a step leaves alone when it only logs
OnlyLogs == UNCHANGED <<io, rpcCallbacks, handlers, chans, crashed>>
C29_Inv ==
    /\ io[Reader] = <<>>
    /\ lastLog = "no registered handler" => (rpc = "log" /\ cur = NoLine /\ mu # Reader)
C29_Step ==
    /\ (rpc = "hreq" /\ rpc' # rpc /\ CurMethod \notin DOMAIN handlers) =>
         (rpc' = "hreq_unlock" /\ rfound' = NotFound /\ OnlyLogs)
    /\ (NoHandlerFound /\ rpc' # rpc) =>
         (rpc' = "log" /\ lastLog' = "no registered handler" /\ OnlyLogs)
    /\ (LogsNoHandler /\ rpc' # rpc) =>
         (rpc' = "scan" /\ lastLog' = "" /\ OnlyLogs)

\* C29: a unit whose method has no handler at the lookup is logged and
\* dropped: from the lookup to the return to the loop the reader runs no
\* handler and changes neither the outbound stream nor the registry, the
\* handler table or any channel, whether or not the unit carries an id.
C29_UnhandledOnlyLogged == []C29_Inv /\ [][C29_Step]_vars
\* a Request with an id was dropped for want of a handler while a call is
\* registered, and the host has been sent nothing by the reader
C29_Witness ==
    /\ LogsNoHandler
    /\ "m2" \notin DOMAIN handlers
    /\ io[Reader] = <<>>
    /\ \E c \in ChanIds : Registered(c) /\ ~Delivered(c)

\* no line is taken off the stream in this step (the host may add one)
NothingRead ==
    /\ Len(inbound') >= Len(inbound)
    /\ SubSeq(inbound', 1, Len(inbound)) = inbound
\* no Response is delivered and no call leaves the registry in this step
NothingDelivered ==
    /\ \A c \in ChanIds : chans'[c].sent = chans[c].sent /\ chans'[c].closed = chans[c].closed
    /\ \A id \in DOMAIN rpcCallbacks : id \in DOMAIN rpcCallbacks'
C30_Step ==
    /\ (rpc = "hreq_unlock" /\ rfound.exists /\ rpc' # rpc) => rpc' \in HandlerOutcomes
    /\ InHandler =>
         /\ NothingRead
         /\ NothingDelivered
         /\ rpc' # rpc => (rpc = "handler" /\ rpc' = "scan")
C30_Inv ==
    InHandler => (mu # Reader /\ cur.kind = "json" /\ Classify(cur.data) = "request")

\* C30: the handler runs in the reader's own context: from the moment the
\* reader calls a handler until that handler returns, no line is read from
\* the stream and no Response is delivered to any pending call; the reader
\* reads again only after the handler returned, and a handler that never
\* returns stops it for good.
C30_HandlersSynchronous == []C30_Inv /\ [][C30_Step]_vars
\* the reader is inside a handler that does not return while the reply to a
\* call whose goroutine waits for it is unread on the stream
C30_Witness ==
    /\ rpc = "blocked"
    /\ \E c \in ChanIds :
         /\ Registered(c) /\ ReplyQueued(c)
         /\ pc[chans[c].owner] = "await" /\ myChan[chans[c].owner] = c

\* ------------------------------------------------------------------- C31
\* the application passed something under fileData["progressFn"]
CallbackSupplied == progressFn # NoProgressFn
\* the calls the callback of upload t received
ProgressCalls(t) == xf[t].progress
FirstReport(t) == [current |-> 0, total |-> xf[t].size]
LastReport(t) == [current |-> xf[t].size, total |-> xf[t].size]
\* upload t has returned having got as far as its URL request
UploadReturned(t) ==
    site[t] \in UploadSites /\ pc[t] = "done" /\ xf[t] # NoXfer /\ Interactions(t) # <<>>

\* C31: when a progress callback is supplied, an upload that has returned nil
\* has invoked it exactly twice, with (0, total) and then (total, total); one
\* that failed at the PUT has invoked it once, with (0, total); one whose URL
\* request failed has not invoked it.
C31_ProgressReported ==
    \A t \in Tasks : (CallbackSupplied /\ UploadReturned(t)) =>
        /\ ret[t].err = NilError =>
              ProgressCalls(t) = <<FirstReport(t), LastReport(t)>>
        /\ (PutsOf(t) # <<>> /\ PutFailed(PutsOf(t)[1])) =>
              ProgressCalls(t) = <<FirstReport(t)>>
        /\ NoUploadURL(t) => ProgressCalls(t) = <<>>

\* the same, for a callback passed as a value of the type ProgressFn
C31_TypedCallbackReported ==
    progressFn = "ProgressFn" =>
        \A t \in Tasks : UploadReturned(t) =>
            /\ ret[t].err = NilError =>
                  ProgressCalls(t) = <<FirstReport(t), LastReport(t)>>
            /\ (PutsOf(t) # <<>> /\ PutFailed(PutsOf(t)[1])) =>
                  ProgressCalls(t) = <<FirstReport(t)>>
            /\ NoUploadURL(t) => ProgressCalls(t) = <<>>

\* ------------------------------------------------------------------- C32
\* an interaction without the id of its call: the query and its variables, or
\* the PUT with its URL and byte count
StepOf(e) ==
    IF e.ch = "http" THEN [kind |-> e.verb, url |-> e.url, len |-> e.len]
    ELSE [kind |-> e.msg.params.o.query.s, variables |-> e.msg.params.o.variables.o]
\* the upload state machine from the URL request on: the steps made and the
\* outcome for a name, a declared size and the bytes, given the Responses of
\* the control channel and the bulk channel's answer to the PUT
UploadMachine(name, size, bytes, answers, put) ==
    LET request == [kind |-> "requestUploadURL",
                    variables |-> [name |-> JStr(name), size |-> JNum(size)]]
    IN
    IF answers = <<>> \/ ~HasURL(answers[1], "requestUploadURL")
    THEN [steps |-> <<request>>, ok |-> FALSE]
    ELSE LET u == answers[1].Result.o.data.o.requestUploadURL.s
             sent == [kind |-> "PUT", url |-> u, len |-> Len(bytes)]
             confirm == [kind |-> "confirmFileUpload", variables |-> [url |-> JStr(u)]]
         IN
         IF put.net # "ok" \/ put.status # 200
         THEN [steps |-> <<request, sent>>, ok |-> FALSE]
         ELSE [steps |-> <<request, sent, confirm>>,
               ok |-> Len(answers) >= 2 /\ ConfirmedTrue(answers[2])]
\* what upload t did, and what the machine does on the same inputs
StepsMade(t) == [i \in 1..Len(Interactions(t)) |-> StepOf(Interactions(t)[i])]
MachineOf(t) ==
    UploadMachine(xf[t].name, xf[t].size, xf[t].content,
                  [i \in 1..Len(Answers(t)) |-> Answers(t)[i].sent[1]],
                  IF PutsOf(t) = <<>> THEN [net |-> "none", status |-> 0]
                  ELSE PutsOf(t)[1].resp)
RanMachine(t) ==
    /\ StepsMade(t) = MachineOf(t).steps
    /\ (ret[t].err = NilError) = MachineOf(t).ok
\* upload t has returned, with a name and bytes of its own
UploadDone(t) == site[t] \in UploadSites /\ pc[t] = "done" /\ xf[t] # NoXfer
\* the byte source of upload t failed it: a stream that did not hold the
\* declared number of bytes, a file that could not be read
SourceFailed(t) ==
    \/ xf[t].phase = "failed"
    \/ ret[t].err = NewFileUploadError(Message("Failed to read file"))

DeclaredSize(t) == Interactions(t)[1].msg.params.o.variables.o.size.n
\* every PUT of upload t carried as many bytes as the URL request declared
PutAsDeclared(t) ==
    \A i \in 1..Len(PutsOf(t)) : PutsOf(t)[i].len = DeclaredSize(t)

\* C40: in every upload, the PUT carries exactly as many bytes as the size
\* declared in the URL request before it, whichever entry point made it.
C40_PutSizeDeclared ==
    \A t \in Tasks : site[t] \in UploadSites => PutAsDeclared(t)

\* the same, for the two entry points that hold the bytes before the request
C40_HeldBytesPutAsDeclared ==
    \A t \in Tasks : site[t] \in {"UploadStream", "UploadContent"} => PutAsDeclared(t)

\* ------------------------------------------------------------------- C33
\* no reply carrying the id of call c has reached handleResponse, and none is
\* being handled
Unanswered(c) ==
    /\ ~Delivered(c)
    /\ ~InFlight(c)
    /\ ~(rpc = "hresp" /\ ReplyFor(c))
\* the caller of c is suspended on its channel
Suspended(c) == myChan[chans[c].owner] = c /\ pc[chans[c].owner] = "await"
\* no call issued so far, this step's included, shares the id of call c
StaysDistinct(c) == \A d \in (1..Len(chans')) \ {c} : chans'[d].id # chans'[c].id
C33_Inv ==
    \A t \in Tasks : (site[t] = "GetTask" /\ pc[t] = "done") => Delivered(myChan[t])
C33_Step ==
    \A c \in ChanIds : Unanswered(c) =>
        /\ chans'[c].sent = <<>> /\ ~chans'[c].closed
        /\ Suspended(c) => pc'[chans[c].owner] = "await"
        /\ (Registered(c) /\ StaysDistinct(c)) =>
              (Has(rpcCallbacks', chans[c].id) /\ rpcCallbacks'[chans[c].id] = c)

\* C33: a call returns only after a Response was delivered to its channel;
\* as long as no reply with its id is handled, whatever else happens (other
\* replies, other calls under other ids, time passing), its channel gets
\* nothing, its caller stays suspended and its entry stays in the registry.
C33_NoReplyNoReturn == []C33_Inv /\ [][C33_Step]_vars
\* one call has resolved and returned while another, issued under a different
\* id, is still registered with its caller suspended and nothing left to read
C33_Witness ==
    \E c, d \in ChanIds :
        /\ chans[c].id # chans[d].id
        /\ Delivered(d) /\ pc[chans[d].owner] = "done"
        /\ Unanswered(c) /\ Registered(c) /\ Suspended(c)
        /\ inbound = <<>> /\ rpc = "scan"

\* ------------------------------------------------------------------- C34
\* call c is the last one issued under its id
LastIssued(c) == \A d \in ChanIds : chans[d].id = chans[c].id => d <= c
\* a reply with the id of c has been processed by handleResponse since c was
\* issued: c was taken out of the registry
ReplyProcessed(c) == InFlight(c) \/ Delivered(c)
\* the ids issued by SendRequest for which no reply has been processed since
IdsAwaitingReply == {chans[c].id : c \in {d \in ChanIds : LastIssued(d) /\ ~ReplyProcessed(d)}}
C34_Inv ==
    /\ DOMAIN rpcCallbacks = IdsAwaitingReply
    /\ \A id \in DOMAIN rpcCallbacks :
         /\ rpcCallbacks[id] \in ChanIds
         /\ chans[rpcCallbacks[id]].id = id
         /\ LastIssued(rpcCallbacks[id])
C34_Step ==
    /\ \A id \in DOMAIN rpcCallbacks \ DOMAIN rpcCallbacks' :
         /\ rpc = "hresp" /\ rpc' = "hresp_unlock"
         /\ MakeResponse(cur.data).ID = id
         /\ DOMAIN rpcCallbacks' = DOMAIN rpcCallbacks \ {id}
    /\ \A id \in DOMAIN rpcCallbacks' \ DOMAIN rpcCallbacks :
         /\ Len(chans') = Len(chans) + 1
         /\ chans'[Len(chans')].id = id
         /\ DOMAIN rpcCallbacks' = DOMAIN rpcCallbacks \cup {id}

\* C34: at every moment the ids in the registry are the ids SendRequest
\* issued for which handleResponse has processed no reply since, each mapped
\* to the channel of the last call issued under it; an id leaves the registry
\* only in handleResponse's lookup of a reply carrying that id, and enters it
\* only in SendRequest.
C34_RegistryIsAwaitedIds == []C34_Inv /\ [][C34_Step]_vars
\* of two calls, one was answered and left the registry and the other, not
\* answered, is the only entry
C34_Witness ==
    \E c, d \in ChanIds :
        /\ chans[c].id # chans[d].id
        /\ Delivered(c)
        /\ ~ReplyProcessed(d)
        /\ DOMAIN rpcCallbacks = {chans[d].id}

\* ------------------------------------------------------------------- C35
\* the channel handleResponse is about to send to
Target == chans[rfound.ch]

\* C35: when handleResponse is about to deliver, the channel is open, was
\* never sent to and its one-slot buffer is empty, so the send goes through
\* at once and the reader goes on, whether or not the caller is at its
\* receive; no channel is ever sent to twice.
C35_DeliveryNeverBlocks ==
    /\ \A c \in ChanIds : Len(chans[c].sent) <= 1 /\ Len(chans[c].buf) <= 1
    /\ rpc = "hresp_send" =>
         /\ rfound.exists
         /\ Target.buf = <<>> /\ Target.sent = <<>> /\ ~Target.closed
         /\ ChanCanSend(Target)
         /\ ENABLED handleResponseDeliver
\* a Response sits in the buffer of a caller that has not reached its receive
\* yet, and the reader is back at reading the next line
C35_Witness ==
    \E c \in ChanIds :
        /\ Len(chans[c].buf) = 1 /\ chans[c].closed
        /\ myChan[chans[c].owner] = c /\ pc[chans[c].owner] = "sr_write"
        /\ rpc = "scan"

\* ------------------------------------------------------------------- C36
\* the handler running on the reader has issued a correlated call and has
\* not returned from it
HandlerCalling == rpc = "handler" /\ pc[Reader] \in {"sr_unlock", "sr_write", "await"}
C36_Inv ==
    /\ pc[Reader] # "idle" => HandlerCalling
    /\ HandlerCalling =>
         /\ chans[myChan[Reader]].sent = <<>>
         /\ ~ENABLED HandlerReturn
         /\ ~ENABLED GetTaskReturn(Reader)
         /\ ~ENABLED OpenPipe
C36_Step ==
    HandlerCalling =>
        /\ rpc' = "handler" /\ cur' = cur
        /\ NothingRead
        /\ NothingDelivered
        /\ \A t \in Tasks :
             (pc[t] = "await" /\ ~Delivered(myChan[t])) => pc'[t] = "await"

\* C36: once a handler has issued a correlated call from inside the reader,
\* the call's channel is never sent to, the handler never returns and the
\* reader never leaves it: from then on no line is read, no Response is
\* delivered, no entry leaves the registry and no caller that is still
\* waiting for its Response returns.
C36_HandlerCallDeadlocks == []C36_Inv /\ [][C36_Step]_vars
\* the handler waits for its reply, which is the next line on stdin, while an
\* application goroutine waits for a reply of its own
C36_Witness ==
    /\ HandlerCalling /\ pc[Reader] = "await"
    /\ Registered(myChan[Reader])
    /\ ReplyQueued(myChan[Reader])
    /\ \E t \in Tasks : pc[t] = "await" /\ Registered(myChan[t])
                         /\ chans[myChan[t]].id # chans[myChan[Reader]].id

\* ------------------------------------------------------------------- C37
\* OpenPipe is past its loop: logging the read error, or returned
LoopEnded == rpc \in {"logdone", "done"}
\* this step ends the loop: the stream ended or a read failed
LoopEnding == rpc = "scan" /\ rpc' \in {"logdone", "done"}
\* call c is pending: registered, nothing delivered to it
Pending(c) == Registered(c) /\ ~Delivered(c)
C37_Inv ==
    LoopEnded =>
        /\ ~ENABLED OpenPipe
        /\ ~ENABLED handleResponseLookup
        /\ ~ENABLED handleResponseDeliver
        /\ \A c \in ChanIds : (Pending(c) /\ Suspended(c)) =>
             ~ENABLED GetTaskReturn(chans[c].owner)
C37_Step ==
    /\ LoopEnding => UNCHANGED <<rpcCallbacks, chans, pc, ret, io, crashed>>
    /\ LoopEnded =>
         /\ rpc' \in {"logdone", "done"}
         /\ NothingDelivered
         /\ \A c \in ChanIds : Pending(c) =>
              /\ StaysDistinct(c) =>
                   (Has(rpcCallbacks', chans[c].id) /\ rpcCallbacks'[chans[c].id] = c)
              /\ chans'[c].buf = <<>> /\ chans'[c].sent = <<>> /\ ~chans'[c].closed
              /\ Suspended(c) => pc'[chans[c].owner] = "await"

\* C37: the step that ends the read loop, at the end of input or on a read
\* error, touches no registry entry, no channel and no caller; and once the
\* loop has ended every pending call stays as it is for good: its entry in
\* the registry (unless a later call reuses its id), its channel empty and
\* open, its caller suspended.
C37_PendingCallsLeftBlocked == []C37_Inv /\ [][C37_Step]_vars
\* the stream was closed and OpenPipe has returned while two calls are
\* pending with their callers suspended
C37_Witness ==
    /\ rpc = "done" /\ inbound = <<>>
    /\ \E c, d \in ChanIds :
         /\ c # d
         /\ Pending(c) /\ Suspended(c)
         /\ Pending(d) /\ Suspended(d)

\* ------------------------------------------------------------------- C38
\* the reader takes a line over the scanner's limit off the stream
ReadsTooLong ==
    /\ rpc = "scan" /\ inbound # <<>> /\ Head(inbound).kind = "toolong"
    /\ inbound' = Tail(inbound)
C38_Step ==
    /\ ReadsTooLong =>
         /\ rpc' = "logdone" /\ lastLog' = "Error reading stdin"
         /\ UNCHANGED <<rpcCallbacks, chans>>
    /\ LoopEnded =>
         /\ rpc' \in {"logdone", "done"}
         /\ cur' = NoLine
         /\ NothingRead
         /\ NothingDelivered

\* C38: reading a line longer than the scanner's limit ends the read loop
\* with the read error logged; from then on the loop is not re-entered: no
\* line behind it is taken off the stream, decoded or handled, so no reply
\* behind it is delivered and no entry leaves the registry.
C38_TooLongEndsLoop == [][C38_Step]_vars
\* OpenPipe has returned after the read error with the reply to a pending
\* call, whose caller is suspended, unread on the stream
C38_Witness ==
    /\ rpc = "done"
    /\ \E c \in ChanIds : Pending(c) /\ Suspended(c) /\ ReplyQueued(c)

\* ------------------------------------------------------------------- C39
\* the decoded unit carries a method that is a string
HasStringMethod(data) == Has(data, "method") /\ IsString(data["method"])
\* the reader is in the dispatcher (handleRequest) / the correlator
\* (handleResponse) with the unit cur
InDispatcher == rpc \in {"hreq", "hreq_unlock", "handler", "blocked"}
InCorrelator == rpc \in {"hresp", "hresp_unlock", "hresp_send"}
\* the reader takes a decoded unit off the stream
ReadsUnit ==
    /\ rpc = "scan" /\ inbound # <<>> /\ Head(inbound).kind = "json"
    /\ inbound' = Tail(inbound)
C39_Inv ==
    /\ InDispatcher => HasStringMethod(cur.data)
    /\ InCorrelator => (~HasStringMethod(cur.data) /\ Has(cur.data, "id"))
C39_Step ==
    /\ ReadsUnit =>
         LET data == Head(inbound).data IN
         /\ HasStringMethod(data) => rpc' = "hreq"
         /\ (~HasStringMethod(data) /\ Has(data, "id")) => rpc' = "hresp"
         /\ (~HasStringMethod(data) /\ ~Has(data, "id")) =>
              /\ rpc' = "log" /\ lastLog' = "Received invalid JSON-RPC"
              /\ cur' = NoLine
         /\ UNCHANGED <<rpcCallbacks, chans>>
    /\ (InDispatcher \/ rpc = "log") =>
         /\ NothingDelivered
         /\ rpc' \notin {"hresp", "hresp_unlock", "hresp_send"}

\* C39: a decoded unit with a string method goes to the dispatcher, whether
\* or not it has an id, and on that path no Response is delivered and no
\* entry leaves the registry, even when its id is that of a pending call; a
\* unit without a string method goes to the correlator exactly when it has
\* an id; a unit with neither is logged and dropped.
C39_MethodBeforeId == []C39_Inv /\ [][C39_Step]_vars
\* the dispatcher holds a Request whose id is the id of a pending call
C39_Witness ==
    /\ rpc = "hreq_unlock"
    /\ Has(cur.data, "id")
    /\ \E c \in ChanIds : Pending(c) /\ Suspended(c) /\ ReplyFor(c)

====
